---- MODULE Spec2Model ----
(***************************************************************************)
(* Recursive filesystem copy (fs.copy / fs.copySync / fs.promises.copy).   *)
(* Three dialects of one algorithm:                                        *)
(*   "sync"     lib/internal/fs/copy/copy-sync.js  (copySyncFn)            *)
(*   "callback" unnamed/part_000                   (copyFn with callback)  *)
(*   "async"    lib/internal/fs/copy/copy.js       (async copyFn)          *)
(* The ambient filesystem is modelled as a map from physical paths to      *)
(* nodes; every handler of the copy engine is one action.                  *)
(***************************************************************************)
EXTENDS Integers, Sequences, FiniteSets, TLC

\* ------------------------------------------------------------------------
\* Bounds of the model
\* ------------------------------------------------------------------------

\* Symbolic links followed while resolving one path before ELOOP is reported.
MaxHops == 3

\* Components of the longest path the filesystem accepts (ENAMETOOLONG beyond).
MaxDepth == 6

\* ------------------------------------------------------------------------
\* Program constants
\* ------------------------------------------------------------------------

\* The owner-write permission bit 0o200 tested by fileIsNotWritable.
OwnerWrite == 128

\* ------------------------------------------------------------------------
\* Path strings.  A path string is [abs, comps]: absolute or relative to the
\* working directory, with its non-empty components.
\* ------------------------------------------------------------------------

Abs(comps) == [abs |-> TRUE, comps |-> comps]
Rel(comps) == [abs |-> FALSE, comps |-> comps]

\* process.cwd()
Cwd == <<"w">>

\* path.resolve(p): the absolute component sequence of p
resolve(p) == IF p.abs THEN p.comps ELSE Cwd \o p.comps

\* path.resolve(base, p) where base is already a component sequence
resolveFrom(base, p) == IF p.abs THEN p.comps ELSE base \o p.comps

isAbsolute(p) == p.abs

Front(s) == IF Len(s) = 0 THEN s ELSE SubSeq(s, 1, Len(s) - 1)

\* path.dirname(p)
dirname(p) == [abs |-> p.abs, comps |-> Front(p.comps)]

\* path.join(p, item)
join(p, item) == [abs |-> p.abs, comps |-> Append(p.comps, item)]

\* path.parse(p).root for an absolute component sequence
RootOf(comps) == << >>

\* normalizePathToArray: resolve, split on the separator, drop empty parts
normalizePathToArray(p) == resolve(p)

\* A faulty isSrcSubdir: the two arrays taken the wrong way round
isSrcSubdirSwapped(src, dest) ==
    LET srcArr == normalizePathToArray(dest)
        destArr == normalizePathToArray(src)
    IN \A i \in 1..Len(srcArr) : i <= Len(destArr) /\ destArr[i] = srcArr[i]

\* isSrcSubdir of the async dialect (ArrayPrototypeEvery); destArr[i] is
\* undefined beyond the end of destArr and then differs from cur.
isSrcSubdir(src, dest) ==
    LET srcArr == normalizePathToArray(src)
        destArr == normalizePathToArray(dest)
    IN \A i \in 1..Len(srcArr) : i <= Len(destArr) /\ destArr[i] = srcArr[i]

\* isSrcSubdir of the callback dialect (reduce with accumulator)
RECURSIVE ReduceSubdir(_, _, _, _)
ReduceSubdir(srcArr, destArr, i, acc) ==
    IF i > Len(srcArr) THEN acc
    ELSE ReduceSubdir(srcArr, destArr, i + 1,
                      acc /\ i <= Len(destArr) /\ destArr[i] = srcArr[i])

\* A faulty reduce: the accumulator is dropped, so only the last component
\* of src decides
RECURSIVE ReduceSubdirLast(_, _, _, _)
ReduceSubdirLast(srcArr, destArr, i, acc) ==
    IF i > Len(srcArr) THEN acc
    ELSE ReduceSubdirLast(srcArr, destArr, i + 1,
                          i <= Len(destArr) /\ destArr[i] = srcArr[i])

isSrcSubdirCbLast(src, dest) ==
    ReduceSubdirLast(resolve(src), resolve(dest), 1, TRUE)

isSrcSubdirCb(src, dest) == ReduceSubdir(resolve(src), resolve(dest), 1, TRUE)

\* ------------------------------------------------------------------------
\* Filesystem nodes and stat records
\* ------------------------------------------------------------------------

NoTarget == Rel(<< >>)

Node(kind, ino, mode, data, target) ==
    [kind |-> kind, ino |-> ino, dev |-> 1, mode |-> mode, data |-> data,
     target |-> target, atime |-> 0, mtime |-> 0, ctime |-> 0]

File(ino, mode, data) == Node("file", ino, mode, data, NoTarget)
Dir(ino, mode) == Node("dir", ino, mode, "", NoTarget)
Link(ino, target) == Node("link", ino, 511, "", target)
Special(kind, ino) == Node(kind, ino, 420, "", NoTarget)

\* A stat result: err is "OK" or an errno name; st is the node seen.
NoNode == Node("none", 0, 0, "", NoTarget)
StatOk(n) == [err |-> "OK", st |-> n]
StatErr(e) == [err |-> e, st |-> NoNode]

isDirectory(st) == st.kind = "dir"
isFile(st) == st.kind = "file"
isCharacterDevice(st) == st.kind = "chardev"
isBlockDevice(st) == st.kind = "blockdev"
isSymbolicLink(st) == st.kind = "link"
isSocket(st) == st.kind = "socket"
isFIFO(st) == st.kind = "fifo"

\* ------------------------------------------------------------------------
\* The ambient filesystem: f maps physical (link-free) paths to nodes.
\* ------------------------------------------------------------------------

\* Walk the components of a path from the physical directory cur.
\* Result: err, the physical path reached (or the first missing one), and
\* whether the missing component was the final one.
RECURSIVE Walk(_, _, _, _, _)
Walk(f, cur, rest, followLast, hops) ==
    IF rest = << >> THEN [err |-> "OK", path |-> cur, last |-> TRUE]
    ELSE LET nxt == Append(cur, Head(rest))
             last == Len(rest) = 1
         IN IF f[cur].kind # "dir"
            THEN [err |-> "ENOTDIR", path |-> cur, last |-> FALSE]
            ELSE IF nxt \notin DOMAIN f
            THEN [err |-> "ENOENT", path |-> nxt, last |-> last]
            ELSE IF f[nxt].kind = "link" /\ (~last \/ followLast)
            THEN IF hops = 0
                 THEN [err |-> "ELOOP", path |-> nxt, last |-> last]
                 ELSE Walk(f, IF f[nxt].target.abs THEN << >> ELSE cur,
                           f[nxt].target.comps \o Tail(rest),
                           followLast, hops - 1)
            ELSE Walk(f, nxt, Tail(rest), followLast, hops)

Physical(f, p, followLast) ==
    IF Len(resolve(p)) > MaxDepth
    THEN [err |-> "ENAMETOOLONG", path |-> << >>, last |-> FALSE]
    ELSE Walk(f, << >>, resolve(p), followLast, MaxHops)

\* fs.stat: follows symbolic links
stat(f, p) ==
    LET r == Physical(f, p, TRUE)
    IN IF r.err = "OK" THEN StatOk(f[r.path]) ELSE StatErr(r.err)

\* fs.lstat: does not follow a final symbolic link
lstat(f, p) ==
    LET r == Physical(f, p, FALSE)
    IN IF r.err = "OK" THEN StatOk(f[r.path]) ELSE StatErr(r.err)

\* fs.readlink
readlink(f, p) ==
    LET r == Physical(f, p, FALSE)
    IN IF r.err # "OK" THEN [err |-> r.err, target |-> NoTarget]
       ELSE IF f[r.path].kind # "link" THEN [err |-> "EINVAL", target |-> NoTarget]
       ELSE [err |-> "OK", target |-> f[r.path].target]

\* The order in which readdir returns names
NameOrder == <<"f.js", "r.md", "a", "g.js", "l", "b", "c", "n", "k", "d", "e",
               "x", "y", "sock", "fifo", "tty", "blk", "u", "w", "m", "h", "s", "t",
               "p", "q", "v", "z">>

Children(f, dir) ==
    {q \in DOMAIN f : Len(q) = Len(dir) + 1 /\ SubSeq(q, 1, Len(dir)) = dir}

\* fs.readdir
readdir(f, p) ==
    LET r == Physical(f, p, TRUE)
    IN IF r.err # "OK" THEN [err |-> r.err, items |-> << >>]
       ELSE IF f[r.path].kind # "dir" THEN [err |-> "ENOTDIR", items |-> << >>]
       ELSE [err |-> "OK",
             items |-> SelectSeq(NameOrder,
                          LAMBDA n : Append(r.path, n) \in Children(f, r.path))]

MaxOf(S) == CHOOSE x \in S : \A y \in S : y <= x
FreshIno(f) == 1 + MaxOf({f[q].ino : q \in DOMAIN f})

Put(f, q, n) == (q :> n) @@ f
Remove(f, q) == [x \in (DOMAIN f) \ {q} |-> f[x]]

FsOk(f) == [err |-> "OK", fs |-> f]
FsErr(e, f) == [err |-> e, fs |-> f]

\* A directory created by mkdir: mode 0o777 masked by the umask 0o022
NewDir(f, t) == [Dir(FreshIno(f), 493) EXCEPT !.mtime = t, !.ctime = t]

\* fs.mkdir(p): the parent must exist and p must not
mkdir(f, p, t) ==
    LET r == Physical(f, p, FALSE)
    IN IF r.err = "OK" THEN FsErr("EEXIST", f)
       ELSE IF r.err = "ENOENT" /\ r.last
       THEN FsOk(Put(f, r.path, NewDir(f, t)))
       ELSE FsErr(r.err, f)

\* fs.mkdir(p, { recursive: true }): creates every missing ancestor
RECURSIVE mkdirp(_, _, _, _)
mkdirp(f, p, t, fuel) ==
    LET r == Physical(f, p, TRUE)
    IN IF r.err = "OK"
       THEN IF f[r.path].kind = "dir" THEN FsOk(f) ELSE FsErr("EEXIST", f)
       ELSE IF r.err = "ENOENT" /\ fuel > 0
       THEN mkdirp(Put(f, r.path, NewDir(f, t)), p, t, fuel - 1)
       ELSE FsErr(r.err, f)

\* fs.unlink(p): removes a non-directory entry, never following a final link
unlink(f, p, t) ==
    LET r == Physical(f, p, FALSE)
    IN IF r.err # "OK" THEN FsErr(r.err, f)
       ELSE IF f[r.path].kind = "dir" THEN FsErr("EISDIR", f)
       ELSE FsOk(Remove(f, r.path))

\* fs.symlink(target, p): p must not exist
symlink(f, target, p, t) ==
    LET r == Physical(f, p, FALSE)
    IN IF r.err = "OK" THEN FsErr("EEXIST", f)
       ELSE IF r.err = "ENOENT" /\ r.last
       THEN FsOk(Put(f, r.path,
                     [Link(FreshIno(f), target) EXCEPT !.mtime = t, !.ctime = t]))
       ELSE FsErr(r.err, f)

\* fs.chmod(p, mode): follows links
chmod(f, p, mode, t) ==
    LET r == Physical(f, p, TRUE)
    IN IF r.err # "OK" THEN FsErr(r.err, f)
       ELSE FsOk([f EXCEPT ![r.path].mode = mode, ![r.path].ctime = t])

\* fs.copyFile(src, dest): byte copy, creating dest with the mode of src or
\* truncating an existing dest; reading src perturbs its atime.
copyFile(f, src, dest, t) ==
    LET s == Physical(f, src, TRUE)
        d == Physical(f, dest, TRUE)
    IN IF s.err # "OK" THEN FsErr(s.err, f)
       ELSE IF f[s.path].kind = "dir" THEN FsErr("EISDIR", f)
       ELSE IF d.err = "OK"
       THEN IF f[d.path].kind = "dir" THEN FsErr("EISDIR", f)
            ELSE IF f[d.path].mode \div OwnerWrite % 2 = 0 THEN FsErr("EACCES", f)
            ELSE FsOk([f EXCEPT ![d.path].data = f[s.path].data,
                                ![d.path].mtime = t, ![d.path].ctime = t,
                                ![s.path].atime = t])
       ELSE IF d.err = "ENOENT" /\ d.last
       THEN FsOk(Put([f EXCEPT ![s.path].atime = t], d.path,
                     [File(FreshIno(f), f[s.path].mode, f[s.path].data)
                        EXCEPT !.mtime = t, !.ctime = t, !.atime = t]))
       ELSE FsErr(d.err, f)

\* open(p, 'r+'), futimes(fd, atime, mtime), close(fd)
utimes(f, p, atime, mtime, t) ==
    LET r == Physical(f, p, TRUE)
    IN IF r.err # "OK" THEN FsErr(r.err, f)
       ELSE IF f[r.path].kind = "dir" THEN FsErr("EISDIR", f)
       ELSE IF f[r.path].mode \div OwnerWrite % 2 = 0 THEN FsErr("EACCES", f)
       ELSE FsOk([f EXCEPT ![r.path].atime = atime, ![r.path].mtime = mtime,
                           ![r.path].ctime = t])

\* The calls of utimesMillis that an ambient failure can hit
UtimesCalls == {"open", "futimes", "close"}

\* utimesMillis: open(path, 'r+'), futimes, close.  `at` is the call that
\* fails with EIO ("none": no such failure); what `utimes` refuses is
\* refused by the open.  `open` tells whether the descriptor is still open
\* when utimesMillis has returned.
\*   sync      openSync; futimesSync; closeSync, one after the other
\*   async     open; try { fd.utimes } finally { fd.close }
\*   callback  open; futimes; close in the callback of futimes
utimesMillis(d, f, p, atime, mtime, t, at) ==
    LET r == utimes(f, p, atime, mtime, t)
        res(e, g, o) == [err |-> e, fs |-> g, open |-> o]
    IN IF at = "open" THEN res("EIO", f, FALSE)
       ELSE IF r.err # "OK" THEN res(r.err, f, FALSE)
       ELSE IF at = "futimes" THEN res("EIO", f, d = "sync")
       ELSE IF at = "close" THEN res("EIO", r.fs, FALSE)
       ELSE res("OK", r.fs, FALSE)

\* ------------------------------------------------------------------------
\* State
\* ------------------------------------------------------------------------

VARIABLES
    fs,        \* the filesystem the running copy operates on
    clock,     \* time stamp given to the next mutation
    log,       \* the mutating calls issued by the running copy, in order
    fs0,       \* the filesystem before the copy was called
    src0,      \* the src argument of the call
    dest0,     \* the dest argument of the call
    opts,      \* the options bag of the call
    dialect,   \* the dialect that is running
    pc,        \* the handler that runs next
    arg,       \* the arguments of that handler
    stack,     \* the directories being copied, innermost last
    outcome,   \* "pending", "OK", or the code of the error returned
    calls,     \* how often the running copy has completed: the top-level
               \* callback invoked, the call returned or thrown, the
               \* promise settled
    faulted,   \* an ambient filesystem call of this run failed with EIO
    results,   \* what each dialect that has finished left behind
    inflight,  \* the mutating calls issued and not yet completed
    fds        \* how many descriptors opened by the copy are still open

inputVars == <<fs0, src0, dest0, opts>>
fsVars == <<fs, clock, log>>
ctlVars == <<pc, arg, stack, outcome, calls>>
vars == <<fs, clock, log, fs0, src0, dest0, opts, dialect, pc, arg, stack,
          outcome, calls, faulted, results, inflight, fds>>

Dialects == <<"sync", "callback", "async">>

\* ------------------------------------------------------------------------
\* Fixtures: the filesystem before the call
\* ------------------------------------------------------------------------

\* /k: a tree of files and directories; r.md is read-only (0o444)
TreeK ==
    (<<"k">> :> Dir(10, 493)) @@
    (<<"k", "f.js">> :> File(11, 420, "F")) @@
    (<<"k", "r.md">> :> File(12, 292, "R")) @@
    (<<"k", "a">> :> Dir(13, 448)) @@
    (<<"k", "a", "g.js">> :> File(14, 416, "G"))

\* /d: an earlier copy of /k with older contents, plus an entry n of its own
TreeD ==
    (<<"d">> :> Dir(20, 493)) @@
    (<<"d", "f.js">> :> File(21, 420, "old")) @@
    (<<"d", "a">> :> Dir(23, 493)) @@
    (<<"d", "a", "g.js">> :> File(24, 420, "old")) @@
    (<<"d", "n">> :> File(25, 420, "N"))

\* /e and /c: destinations whose children have the wrong kind
TreeE ==
    (<<"e">> :> Dir(30, 493)) @@
    (<<"e", "f.js">> :> Dir(31, 493)) @@
    (<<"c">> :> Dir(32, 493)) @@
    (<<"c", "a">> :> File(33, 420, "A"))

\* /m/b is a symbolic link to /k; /h is a symbolic link to /k/f.js
TreeM ==
    (<<"m">> :> Dir(40, 493)) @@
    (<<"m", "b">> :> Link(41, Abs(<<"k">>))) @@
    (<<"h">> :> Link(42, Abs(<<"k", "f.js">>)))

\* /s: a tree holding a relative link to a sibling file and a link to a
\* directory; /p already holds copies of both links and a file where s has l
TreeS ==
    (<<"s">> :> Dir(50, 493)) @@
    (<<"s", "f.js">> :> File(51, 420, "S")) @@
    (<<"s", "l">> :> Link(52, Rel(<<"f.js">>))) @@
    (<<"s", "b">> :> Link(53, Abs(<<"k", "a">>))) @@
    (<<"p">> :> Dir(54, 493)) @@
    (<<"p", "l">> :> File(55, 420, "P"))

\* /q: a directory that holds links of the same names as /s with targets of
\* their own
TreeQ ==
    (<<"q">> :> Dir(60, 493)) @@
    (<<"q", "g.js">> :> File(61, 420, "Q")) @@
    (<<"q", "l">> :> Link(62, Rel(<<"g.js">>))) @@
    (<<"q", "b">> :> Link(63, Abs(<<"x">>)))

\* /v: what copySyncFn makes of /s; /z: links of the same names, l to a
\* path under the file /s/f.js and b to the parent /k of the target of /s/b
TreeV ==
    (<<"v">> :> Dir(70, 493)) @@
    (<<"v", "f.js">> :> File(71, 420, "S")) @@
    (<<"v", "l">> :> Link(72, Rel(<<"f.js">>))) @@
    (<<"v", "b">> :> Link(73, Abs(<<"k", "a">>))) @@
    (<<"z">> :> Dir(74, 493)) @@
    (<<"z", "l">> :> Link(75, Abs(<<"s", "f.js", "n">>))) @@
    (<<"z", "b">> :> Link(76, Abs(<<"k">>)))

\* Entries that are not files, directories or links, and the working directory
TreeMisc ==
    (<< >> :> Dir(1, 493)) @@
    (<<"w">> :> Dir(2, 493)) @@
    (<<"w", "y">> :> File(3, 420, "Y")) @@
    (<<"x">> :> File(4, 420, "X")) @@
    (<<"sock">> :> Special("socket", 5)) @@
    (<<"fifo">> :> Special("fifo", 6)) @@
    (<<"tty">> :> Special("chardev", 7)) @@
    (<<"blk">> :> Special("blockdev", 9)) @@
    (<<"u">> :> Special("unknown", 8))

Fixture ==
    TreeMisc @@ TreeK @@ TreeD @@ TreeE @@ TreeM @@ TreeS @@ TreeQ @@ TreeV

Fixtures == {Fixture}

\* The (src, dest) pairs of the calls
Pairs ==
    { <<Abs(<<"k">>), Abs(<<"t">>)>>,            \* fresh copy of a tree
      <<Abs(<<"k">>), Abs(<<"d">>)>>,            \* onto an earlier copy
      <<Abs(<<"k">>), Abs(<<"k">>)>>,            \* onto itself
      <<Abs(<<"k">>), Abs(<<"k", "a">>)>>,       \* into its own subdirectory
      <<Abs(<<"k">>), Abs(<<"k", "n">>)>>,       \* into itself, dest absent
      <<Abs(<<"k">>), Abs(<<"k", "f.js">>)>>,    \* onto a file inside itself
      <<Abs(<<"x">>), Abs(<<"x">>)>>,            \* a file onto itself
      <<Abs(<<"k">>), Abs(<<"m", "b", "c">>)>>,  \* dest under a link to src
      <<Abs(<<"k">>), Abs(<<"m", "b", "c", "n">>)>>,  \* the same, one deeper
      <<Abs(<<"k">>), Abs(<<"x">>)>>,            \* directory onto file
      <<Abs(<<"x">>), Abs(<<"k">>)>>,            \* file onto directory
      <<Abs(<<"k">>), Abs(<<"e">>)>>,            \* child file onto directory
      <<Abs(<<"k">>), Abs(<<"c">>)>>,            \* child directory onto file
      <<Abs(<<"sock">>), Abs(<<"t">>)>>,
      <<Abs(<<"fifo">>), Abs(<<"t">>)>>,
      <<Abs(<<"tty">>), Abs(<<"t">>)>>,
      <<Abs(<<"blk">>), Abs(<<"t">>)>>,
      <<Abs(<<"u">>), Abs(<<"t">>)>>,
      <<Rel(<<"y">>), Abs(<<"t", "n", "y">>)>>,  \* parent of dest is missing
      <<Abs(<<"k", "f.js">>), Abs(<<"d", "f.js">>)>>,  \* file onto file
      <<Abs(<<"h">>), Abs(<<"k", "f.js">>)>>,    \* link onto its own target
      <<Abs(<<"s">>), Abs(<<"t">>)>>,            \* fresh copy of links
      <<Abs(<<"s">>), Abs(<<"p">>)>>,            \* link onto a file
      <<Abs(<<"s">>), Abs(<<"q">>)>>,            \* links onto other links
      <<Abs(<<"s">>), Abs(<<"v">>)>>,            \* links onto their copies
      <<Abs(<<"s">>), Abs(<<"z">>)>>,            \* links onto enclosing links
      <<Abs(<<"s">>), Abs(<<"s">>)>>,
      <<Abs(<<"gone">>), Abs(<<"t">>)>> }        \* src does not exist

\* The filter functions a caller may pass; "none" is no filter.
\*   dirsAndJs  (p) => statSync(p).isDirectory() || p.endsWith('.js')
\*   skipA      (p) => basename(p) !== 'a'
\*   never      ()  => false
Filters == {"none", "dirsAndJs", "skipA", "never"}

JsNames == {"f.js", "g.js"}

Last(s) == s[Len(s)]

\* opts.filter(src, dest)
Filter(name, f, src, dest) ==
    CASE name = "dirsAndJs" ->
           isDirectory(stat(f, src).st) \/
           (src.comps # << >> /\ Last(src.comps) \in JsNames)
      [] name = "skipA" -> src.comps = << >> \/ Last(src.comps) # "a"
      [] name = "never" -> FALSE
      [] OTHER -> TRUE

\* The option bags of the calls: every combination of the flags without a
\* filter, and every filter with and without dereference.
OptionBags ==
    {o \in [dereference : BOOLEAN, preserveTimestamps : BOOLEAN, force : BOOLEAN,
            overwrite : BOOLEAN, errorOnExist : BOOLEAN, filter : Filters] :
        o.filter # "none" =>
            ~o.preserveTimestamps /\ ~o.force /\ ~o.overwrite /\ ~o.errorOnExist}

\* The overwrite flag a dialect reads: opts.force in the async dialect,
\* opts.overwrite in the blocking and callback dialects.
OverwriteFlag(d, o) == IF d = "async" THEN o.force ELSE o.overwrite

NoStack == << >>

Arg0(src, dest) ==
    [src |-> src, dest |-> dest, srcStat |-> NoNode, destStat |-> NoNode,
     walk |-> dest, top |-> TRUE, mode |-> 0, made |-> FALSE,
     target |-> NoTarget]

NoResult == [outcome |-> "pending", fs |-> << >>, log |-> << >>]

Init ==
    /\ fs0 \in Fixtures
    /\ \E pr \in Pairs : src0 = pr[1] /\ dest0 = pr[2]
    /\ opts \in OptionBags
    /\ fs = fs0
    /\ clock = 1
    /\ log = << >>
    /\ dialect = Dialects[1]
    /\ pc = "copyFn"
    /\ arg = Arg0(src0, dest0)
    /\ stack = NoStack
    /\ outcome = "pending"
    /\ calls = 0
    /\ faulted = FALSE
    /\ results = [d \in {Dialects[i] : i \in 1..Len(Dialects)} |-> NoResult]
    /\ inflight = {}
    /\ fds = 0

\* ------------------------------------------------------------------------
\* Helpers of the actions
\* ------------------------------------------------------------------------

\* Control passes to handler p; passing to "done" is the completion of the
\* copy: cb(err) or cb(null) at the top level, the return or throw of
\* copySyncFn, the settling of the promise.
Ctl(p, a, s, o) ==
    /\ pc' = p /\ arg' = a /\ stack' = s /\ outcome' = o
    /\ calls' = IF p = "done" THEN calls + 1 ELSE calls

Goto(p, a) == Ctl(p, a, stack, outcome)

\* An error is thrown (blocking, async) or handed to cb (callback): it
\* passes every enclosing handler and ends the copy.
\* A faulty error path: the error is reported, but the enclosing directory
\* loop is not left and goes on with its next entry
FailAndGoOn(e) ==
    /\ pc' = (IF stack = NoStack THEN "done" ELSE "copyDirItems")
    /\ arg' = arg /\ stack' = stack /\ outcome' = e
    /\ calls' = calls + 1

Fail(e) == Ctl("done", arg, NoStack, e)

\* The pair is finished without error: the enclosing directory goes on
\* with its next child, or the copy completes.
Return(a, s) ==
    IF s = NoStack THEN Ctl("done", a, s, "OK")
    ELSE Ctl("copyDirItems", a, s, outcome)

\* An ambient call may fail for a reason of its own (EIO)
Inject == {FALSE, TRUE}
Res(inj, r) == IF inj THEN FsErr("EIO", fs) ELSE r

Mutate(op, path, r, inj) ==
    /\ fs' = r.fs
    /\ clock' = clock + 1
    /\ log' = Append(log, [op |-> op, path |-> path, err |-> r.err])
    /\ faulted' = (faulted \/ inj)
    /\ inflight' = inflight \ {op}

NoMutation == UNCHANGED <<fs, clock, log, faulted, inflight>>

Exists(st) == st.kind # "none"

\* ------------------------------------------------------------------------
\* Path-identity predicates and the stat resolver
\* ------------------------------------------------------------------------

\* A faulty areIdentical: the inode of dest compared with the device of src
areIdenticalInoDev(srcStat, destStat) ==
    /\ destStat.ino # 0
    /\ destStat.dev # 0
    /\ destStat.ino = srcStat.dev
    /\ destStat.dev = srcStat.dev

\* A faulty areIdentical: the inode and the device of dest are not tested
\* for being nonzero
areIdenticalZeroToo(srcStat, destStat) ==
    /\ destStat.ino = srcStat.ino
    /\ destStat.dev = srcStat.dev

areIdentical(srcStat, destStat) ==
    /\ destStat.ino # 0
    /\ destStat.dev # 0
    /\ destStat.ino = srcStat.ino
    /\ destStat.dev = srcStat.dev

\* A faulty statFunc: lstat whatever opts.dereference is
statFuncNoFollow(f, p) == lstat(f, p)

statFunc(f, p) == IF opts.dereference THEN stat(f, p) ELSE lstat(f, p)

StatsOk(s, d) == [err |-> "OK", srcStat |-> s, destStat |-> d]
StatsErr(e) == [err |-> e, srcStat |-> NoNode, destStat |-> NoNode]

\* A faulty getStats: every failure of the stat of dest is taken as a dest
\* that does not exist
getStatsDestErrorsIgnored(d, f, src, dest) ==
    LET s == statFunc(f, src)
        t == statFunc(f, dest)
    IN IF s.err # "OK" THEN {StatsErr(s.err)}
       ELSE {StatsOk(s.st, t.st)}

\* getStatsSync / getStats / getStatsAsync: the possible results.  The
\* blocking dialect stats src first; the other two stat both at once and
\* report whichever failure settles first.
getStats(d, f, src, dest) ==
    LET s == statFunc(f, src)
        t == statFunc(f, dest)
        destFails == t.err # "OK" /\ t.err # "ENOENT"
    IN IF s.err # "OK"
       THEN {StatsErr(s.err)} \cup
            (IF d # "sync" /\ destFails THEN {StatsErr(t.err)} ELSE {})
       ELSE IF destFails THEN {StatsErr(t.err)}
       ELSE {StatsOk(s.st, t.st)}

SubdirOf(d, src, dest) ==
    IF d = "callback" THEN isSrcSubdirCb(src, dest) ELSE isSrcSubdir(src, dest)

\* A faulty checkPaths: the check of a non-directory onto a directory left
\* out
checkPathsOnDirOnly(d, r, src, dest) ==
    IF r.err # "OK" THEN r
    ELSE IF Exists(r.destStat) /\ areIdentical(r.srcStat, r.destStat)
    THEN StatsErr("ERR_FS_COPY_TO_SUBDIRECTORY")
    ELSE IF Exists(r.destStat) /\ isDirectory(r.srcStat) /\ ~isDirectory(r.destStat)
    THEN StatsErr("ERR_FS_COPY_DIR_TO_NON_DIR")
    ELSE IF isDirectory(r.srcStat) /\ SubdirOf(d, src, dest)
    THEN StatsErr("ERR_FS_COPY_TO_SUBDIRECTORY")
    ELSE r

\* checkPaths / checkPathsSync on one result of getStats
\* A faulty checkPaths: the path-prefix test comes before the tests on the
\* kinds of src and dest
checkPathsOnSubdirFirst(d, r, src, dest) ==
    IF r.err # "OK" THEN r
    ELSE IF Exists(r.destStat) /\ areIdentical(r.srcStat, r.destStat)
    THEN StatsErr("ERR_FS_COPY_TO_SUBDIRECTORY")
    ELSE IF isDirectory(r.srcStat) /\ SubdirOf(d, src, dest)
    THEN StatsErr("ERR_FS_COPY_TO_SUBDIRECTORY")
    ELSE IF Exists(r.destStat) /\ isDirectory(r.srcStat) /\ ~isDirectory(r.destStat)
    THEN StatsErr("ERR_FS_COPY_DIR_TO_NON_DIR")
    ELSE IF Exists(r.destStat) /\ ~isDirectory(r.srcStat) /\ isDirectory(r.destStat)
    THEN StatsErr("ERR_FS_COPY_NON_DIR_TO_DIR")
    ELSE r

checkPathsOn(d, r, src, dest) ==
    IF r.err # "OK" THEN r
    ELSE IF Exists(r.destStat) /\ areIdentical(r.srcStat, r.destStat)
    THEN StatsErr("ERR_FS_COPY_TO_SUBDIRECTORY")
    ELSE IF Exists(r.destStat) /\ isDirectory(r.srcStat) /\ ~isDirectory(r.destStat)
    THEN StatsErr("ERR_FS_COPY_DIR_TO_NON_DIR")
    ELSE IF Exists(r.destStat) /\ ~isDirectory(r.srcStat) /\ isDirectory(r.destStat)
    THEN StatsErr("ERR_FS_COPY_NON_DIR_TO_DIR")
    ELSE IF isDirectory(r.srcStat) /\ SubdirOf(d, src, dest)
    THEN StatsErr("ERR_FS_COPY_TO_SUBDIRECTORY")
    ELSE r

checkPaths(d, f, src, dest) ==
    {checkPathsOn(d, r, src, dest) : r \in getStats(d, f, src, dest)}

\* A faulty dispatcher: only regular files reach the file copier, devices
\* fall through to the unknown kind
DispatchFilesOnly(srcStat) ==
    IF isDirectory(srcStat) THEN "onDir"
    ELSE IF isFile(srcStat) THEN "onFile"
    ELSE IF isSymbolicLink(srcStat) THEN "onLink"
    ELSE IF isSocket(srcStat) THEN "ERR_FS_COPY_SOCKET"
    ELSE IF isFIFO(srcStat) THEN "ERR_FS_COPY_FIFO_PIPE"
    ELSE "ERR_FS_COPY_UNKNOWN"

\* The type dispatcher of getStatsForCopy / getStats: the next handler, or
\* the error raised for a kind that cannot be copied.
Dispatch(srcStat) ==
    IF isDirectory(srcStat) THEN "onDir"
    ELSE IF isFile(srcStat) \/ isCharacterDevice(srcStat) \/ isBlockDevice(srcStat)
    THEN "onFile"
    ELSE IF isSymbolicLink(srcStat) THEN "onLink"
    ELSE IF isSocket(srcStat) THEN "ERR_FS_COPY_SOCKET"
    ELSE IF isFIFO(srcStat) THEN "ERR_FS_COPY_FIFO_PIPE"
    ELSE "ERR_FS_COPY_UNKNOWN"

Handlers == {"onDir", "onFile", "onLink"}

fileIsNotWritable(srcMode) == (srcMode \div OwnerWrite) % 2 = 0

\* srcMode | 0o200
WithOwnerWrite(srcMode) ==
    IF fileIsNotWritable(srcMode) THEN srcMode + OwnerWrite ELSE srcMode

\* ------------------------------------------------------------------------
\* Actions: one per handler
\* ------------------------------------------------------------------------

\* copyFn / copySyncFn: entry
CopyFn ==
    /\ pc = "copyFn"
    /\ Goto("checkPaths", arg)
    /\ NoMutation
    /\ UNCHANGED <<inputVars, dialect, results, fds>>

\* checkPaths: for the top-level pair and for every child pair
CheckPaths ==
    /\ pc = "checkPaths"
    /\ \E r \in checkPaths(dialect, fs, arg.src, arg.dest) :
         IF r.err # "OK" THEN Fail(r.err)
         ELSE Goto(IF arg.top THEN "checkParentPaths" ELSE "startCopy",
                   [arg EXCEPT !.srcStat = r.srcStat, !.destStat = r.destStat,
                               !.walk = arg.dest])
    /\ NoMutation
    /\ UNCHANGED <<inputVars, dialect, results, fds>>

\* A faulty checkParentPaths: an ancestor that does not exist fails the
\* copy instead of ending the walk
CheckParentPathsEnoentFails ==
    /\ pc = "checkParentPaths"
    /\ LET srcParent == resolve(dirname(arg.src))
           destParent == resolve(dirname(arg.walk))
           destStat == stat(fs, Abs(destParent))
       IN IF destParent = srcParent \/ destParent = RootOf(destParent)
          THEN Goto("handleFilter", arg)
          ELSE IF destStat.err # "OK" THEN Fail(destStat.err)
          ELSE IF areIdentical(arg.srcStat, destStat.st)
          THEN Fail("ERR_FS_COPY_TO_SUBDIRECTORY")
          ELSE Goto("checkParentPaths", [arg EXCEPT !.walk = Abs(destParent)])
    /\ NoMutation
    /\ UNCHANGED <<inputVars, dialect, results, fds>>

\* checkParentPaths: one step of the ancestor walk
CheckParentPaths ==
    /\ pc = "checkParentPaths"
    /\ LET srcParent == resolve(dirname(arg.src))
           destParent == resolve(dirname(arg.walk))
           destStat == stat(fs, Abs(destParent))
       IN IF destParent = srcParent \/ destParent = RootOf(destParent)
          THEN Goto("handleFilter", arg)
          ELSE IF destStat.err = "ENOENT" THEN Goto("handleFilter", arg)
          ELSE IF destStat.err # "OK" THEN Fail(destStat.err)
          ELSE IF areIdentical(arg.srcStat, destStat.st)
          THEN Fail("ERR_FS_COPY_TO_SUBDIRECTORY")
          ELSE Goto("checkParentPaths", [arg EXCEPT !.walk = Abs(destParent)])
    /\ NoMutation
    /\ UNCHANGED <<inputVars, dialect, results, fds>>

\* A faulty handleFilter: the parent of dest is prepared whatever the
\* filter says of the top-level pair
HandleFilterIgnored ==
    /\ pc = "handleFilter"
    /\ Goto("checkParentDir", arg)
    /\ NoMutation
    /\ UNCHANGED <<inputVars, dialect, results, fds>>

\* The filter on the top-level pair: handleFilter(checkParentDir, ...) of
\* copyFn, the first line of handleFilterAndCopy
HandleFilter ==
    /\ pc = "handleFilter"
    /\ IF opts.filter # "none" /\ ~Filter(opts.filter, fs, arg.src, arg.dest)
       THEN Return(arg, stack)
       ELSE Goto("checkParentDir", arg)
    /\ NoMutation
    /\ UNCHANGED <<inputVars, dialect, results, fds>>

\* checkParentDir: create the parent of dest when it does not exist
CheckParentDir ==
    /\ pc = "checkParentDir"
    /\ LET destParent == dirname(arg.dest)
           st == stat(fs, destParent)
       IN IF st.err = "OK"
          THEN Goto("getStatsForCopy", arg) /\ NoMutation
          ELSE IF st.err # "ENOENT" /\ dialect # "sync"
          THEN Fail(st.err) /\ NoMutation
          ELSE \E inj \in Inject :
                 LET r == Res(inj, mkdirp(fs, destParent, clock,
                                          Len(resolve(destParent))))
                 IN /\ Mutate("mkdir", destParent, r, inj)
                    /\ IF r.err = "OK" THEN Goto("getStatsForCopy", arg)
                       ELSE Fail(r.err)
    /\ UNCHANGED <<inputVars, dialect, results, fds>>

\* A faulty startCopy: the filter is not consulted for a child pair
StartCopyUnfiltered ==
    /\ pc = "startCopy"
    /\ Goto("getStatsForCopy", arg)
    /\ NoMutation
    /\ UNCHANGED <<inputVars, dialect, results, fds>>

\* startCopy: the filter on a child pair
StartCopy ==
    /\ pc = "startCopy"
    /\ IF opts.filter # "none" /\ ~Filter(opts.filter, fs, arg.src, arg.dest)
       THEN Return(arg, stack)
       ELSE Goto("getStatsForCopy", arg)
    /\ NoMutation
    /\ UNCHANGED <<inputVars, dialect, results, fds>>

\* getStatsForCopy / getStats: stat src again and dispatch on its kind
GetStatsForCopy ==
    /\ pc = "getStatsForCopy"
    /\ LET s == statFunc(fs, arg.src)
       IN IF s.err # "OK" THEN Fail(s.err)
          ELSE IF Dispatch(s.st) \in Handlers
          THEN Goto(Dispatch(s.st), [arg EXCEPT !.srcStat = s.st])
          ELSE Fail(Dispatch(s.st))
    /\ NoMutation
    /\ UNCHANGED <<inputVars, dialect, results, fds>>

\* onFile
OnFile ==
    /\ pc = "onFile"
    /\ Goto(IF ~Exists(arg.destStat) THEN "_copyFile" ELSE "mayCopyFile", arg)
    /\ NoMutation
    /\ UNCHANGED <<inputVars, dialect, results, fds>>

\* A faulty mayCopyFile: errorOnExist is tested before the overwrite flag
MayCopyFileErrorFirst ==
    /\ pc = "mayCopyFile"
    /\ IF opts.errorOnExist
       THEN NoMutation /\ Fail("ERR_FS_COPY_EEXIST")
       ELSE IF OverwriteFlag(dialect, opts)
       THEN \E inj \in Inject :
              LET r == Res(inj, unlink(fs, arg.dest, clock))
              IN /\ Mutate("unlink", arg.dest, r, inj)
                 /\ IF r.err = "OK" THEN Goto("_copyFile", arg) ELSE Fail(r.err)
       ELSE NoMutation /\ Return(arg, stack)
    /\ UNCHANGED <<inputVars, dialect, results, fds>>

\* A faulty mayCopyFile: errorOnExist is not looked at, an existing file is
\* left as it is
MayCopyFileSilent ==
    /\ pc = "mayCopyFile"
    /\ IF OverwriteFlag(dialect, opts)
       THEN \E inj \in Inject :
              LET r == Res(inj, unlink(fs, arg.dest, clock))
              IN /\ Mutate("unlink", arg.dest, r, inj)
                 /\ IF r.err = "OK" THEN Goto("_copyFile", arg) ELSE Fail(r.err)
       ELSE NoMutation /\ Return(arg, stack)
    /\ UNCHANGED <<inputVars, dialect, results, fds>>

\* mayCopyFile: dest exists
\* A faulty mayCopyFile: under the overwrite flag dest is unlinked and the
\* pair is finished, with no byte copy
MayCopyFileUnlinkOnly ==
    /\ pc = "mayCopyFile"
    /\ IF OverwriteFlag(dialect, opts)
       THEN \E inj \in Inject :
              LET r == Res(inj, unlink(fs, arg.dest, clock))
              IN /\ Mutate("unlink", arg.dest, r, inj)
                 /\ IF r.err = "OK" THEN Return(arg, stack) ELSE Fail(r.err)
       ELSE /\ NoMutation
            /\ IF opts.errorOnExist THEN Fail("ERR_FS_COPY_EEXIST")
               ELSE Return(arg, stack)
    /\ UNCHANGED <<inputVars, dialect, results, fds>>

\* A faulty mayCopyFile: the directory that holds dest is emptied of dest
\* and nothing is put in its place
MayCopyFileRemoves ==
    /\ pc = "mayCopyFile"
    /\ IF OverwriteFlag(dialect, opts)
       THEN \E inj \in Inject :
              LET r == Res(inj, unlink(fs, arg.dest, clock))
              IN /\ Mutate("unlink", arg.dest, r, inj)
                 /\ IF r.err = "OK" THEN Return(arg, stack) ELSE Fail(r.err)
       ELSE /\ NoMutation
            /\ IF opts.errorOnExist THEN Fail("ERR_FS_COPY_EEXIST")
               ELSE Return(arg, stack)
    /\ UNCHANGED <<inputVars, dialect, results, fds>>

MayCopyFile ==
    /\ pc = "mayCopyFile"
    /\ IF OverwriteFlag(dialect, opts)
       THEN \E inj \in Inject :
              LET r == Res(inj, unlink(fs, arg.dest, clock))
              IN /\ Mutate("unlink", arg.dest, r, inj)
                 /\ IF r.err = "OK" THEN Goto("_copyFile", arg) ELSE Fail(r.err)
       ELSE /\ NoMutation
            /\ IF opts.errorOnExist THEN Fail("ERR_FS_COPY_EEXIST")
               ELSE Return(arg, stack)
    /\ UNCHANGED <<inputVars, dialect, results, fds>>

\* A faulty _copyFile: the error of the byte copy is recorded, but the
\* handler goes on to set the mode of dest
CopyFileGoesOn ==
    /\ pc = "_copyFile"
    /\ \E inj \in Inject :
         LET r == Res(inj, copyFile(fs, arg.src, arg.dest, clock))
         IN /\ Mutate("copyFile", arg.dest, r, inj)
            /\ Ctl("setDestMode", [arg EXCEPT !.mode = arg.srcStat.mode],
                   stack, IF r.err # "OK" THEN r.err ELSE outcome)
    /\ UNCHANGED <<inputVars, dialect, results, fds>>

\* _copyFile / copyFile: the byte copy
CopyFile ==
    /\ pc = "_copyFile"
    /\ \E inj \in Inject :
         LET r == Res(inj, copyFile(fs, arg.src, arg.dest, clock))
         IN /\ Mutate("copyFile", arg.dest, r, inj)
            /\ IF r.err # "OK" THEN Fail(r.err)
               ELSE Goto(IF opts.preserveTimestamps
                         THEN "handleTimestampsAndMode" ELSE "setDestMode",
                         [arg EXCEPT !.mode = arg.srcStat.mode])
    /\ UNCHANGED <<inputVars, dialect, results, fds>>

\* A faulty handleTimestampsAndMode: dest is not made writable before its
\* times are set
HandleTimestampsAndModeReadOnly ==
    /\ pc = "handleTimestampsAndMode"
    /\ Goto("setDestTimestamps", arg)
    /\ NoMutation
    /\ UNCHANGED <<inputVars, dialect, results, fds>>

\* handleTimestampsAndMode / handleTimestamps: makeFileWritable if needed
HandleTimestampsAndMode ==
    /\ pc = "handleTimestampsAndMode"
    /\ IF fileIsNotWritable(arg.mode)
       THEN \E inj \in Inject :
              LET r == Res(inj, chmod(fs, arg.dest, WithOwnerWrite(arg.mode), clock))
              IN /\ Mutate("chmod", arg.dest, r, inj)
                 /\ IF r.err = "OK" THEN Goto("setDestTimestamps", arg)
                    ELSE Fail(r.err)
       ELSE Goto("setDestTimestamps", arg) /\ NoMutation
    /\ UNCHANGED <<inputVars, dialect, results, fds>>

\* A faulty setDestTimestamps: the times of the stat record taken before the
\* byte copy are used
SetDestTimestampsStale ==
    /\ pc = "setDestTimestamps"
    /\ \E inj \in Inject :
         LET r == Res(inj, utimes(fs, arg.dest, arg.srcStat.atime,
                                  arg.srcStat.mtime, clock))
         IN /\ Mutate("futimes", arg.dest, r, inj)
            /\ IF r.err = "OK" THEN Goto("setDestMode", arg)
               ELSE Fail(r.err)
    /\ UNCHANGED <<inputVars, dialect, results, fds>>

\* setDestTimestamps and utimesMillis: restat src, then open, futimes, close
SetDestTimestamps ==
    /\ pc = "setDestTimestamps"
    /\ LET updatedSrcStat == stat(fs, arg.src)
       IN IF updatedSrcStat.err # "OK"
          THEN Fail(updatedSrcStat.err) /\ NoMutation /\ fds' = fds
          ELSE \E inj \in Inject :
               \E at \in (IF ~inj THEN {"none"}
                          ELSE IF utimes(fs, arg.dest, 0, 0, clock).err # "OK"
                          THEN {"open"} ELSE UtimesCalls) :
                 LET r == utimesMillis(dialect, fs, arg.dest,
                                       updatedSrcStat.st.atime,
                                       updatedSrcStat.st.mtime, clock, at)
                 IN /\ Mutate("futimes", arg.dest, r, inj)
                    /\ fds' = IF r.open THEN fds + 1 ELSE fds
                    /\ IF r.err = "OK" THEN Goto("setDestMode", arg)
                       ELSE Fail(r.err)
    /\ UNCHANGED <<inputVars, dialect, results>>

\* A faulty setDestMode: the owner-write bit that handleTimestampsAndMode
\* added stays in the mode that is set
SetDestModeWritable ==
    /\ pc = "setDestMode"
    /\ \E inj \in Inject :
         LET r == Res(inj, chmod(fs, arg.dest, WithOwnerWrite(arg.mode), clock))
         IN /\ Mutate("chmod", arg.dest, r, inj)
            /\ IF r.err = "OK" THEN Return(arg, stack) ELSE Fail(r.err)
    /\ UNCHANGED <<inputVars, dialect, results, fds>>

\* setDestMode: the last step of a file copy and of mkDirAndCopy
\* A faulty setDestMode: the mode is set on src
SetDestModeOnSrc ==
    /\ pc = "setDestMode"
    /\ \E inj \in Inject :
         LET r == Res(inj, chmod(fs, arg.src, arg.mode, clock))
         IN /\ Mutate("chmod", arg.src, r, inj)
            /\ IF r.err = "OK" THEN Return(arg, stack) ELSE Fail(r.err)
    /\ UNCHANGED <<inputVars, dialect, results, fds>>

SetDestMode ==
    /\ pc = "setDestMode"
    /\ \E inj \in Inject :
         LET r == Res(inj, chmod(fs, arg.dest, arg.mode, clock))
         IN /\ Mutate("chmod", arg.dest, r, inj)
            /\ IF r.err = "OK" THEN Return(arg, stack) ELSE Fail(r.err)
    /\ UNCHANGED <<inputVars, dialect, results, fds>>

\* onDir
OnDir ==
    /\ pc = "onDir"
    /\ Goto(IF ~Exists(arg.destStat) THEN "mkDirAndCopy" ELSE "copyDir",
            [arg EXCEPT !.made = FALSE])
    /\ NoMutation
    /\ UNCHANGED <<inputVars, dialect, results, fds>>

\* mkDirAndCopy: mkdir dest; its children and its chmod follow
\* A faulty mkDirAndCopy: the directory is made and its entries are copied,
\* but the final setDestMode is left out
MkDirAndCopyNoChmod ==
    /\ pc = "mkDirAndCopy"
    /\ \E inj \in Inject :
         LET r == Res(inj, mkdir(fs, arg.dest, clock))
         IN /\ Mutate("mkdir", arg.dest, r, inj)
            /\ IF r.err = "OK" THEN Goto("copyDir", arg) ELSE Fail(r.err)
    /\ UNCHANGED <<inputVars, dialect, results, fds>>

MkDirAndCopy ==
    /\ pc = "mkDirAndCopy"
    /\ \E inj \in Inject :
         LET r == Res(inj, mkdir(fs, arg.dest, clock))
         IN /\ Mutate("mkdir", arg.dest, r, inj)
            /\ IF r.err = "OK" THEN Goto("copyDir", [arg EXCEPT !.made = TRUE])
               ELSE Fail(r.err)
    /\ UNCHANGED <<inputVars, dialect, results, fds>>

\* A faulty copyDir: the loop over the entries starts at the second one
CopyDirFromSecond ==
    /\ pc = "copyDir"
    /\ LET dir == readdir(fs, arg.src)
       IN IF dir.err # "OK" THEN Fail(dir.err)
          ELSE Ctl("copyDirItems", arg,
                   Append(stack, [src |-> arg.src, dest |-> arg.dest,
                                  items |-> IF dir.items = << >> THEN << >>
                                            ELSE Tail(dir.items),
                                  mode |-> arg.srcStat.mode,
                                  made |-> arg.made]),
                   outcome)
    /\ NoMutation
    /\ UNCHANGED <<inputVars, dialect, results, fds>>

\* copyDir: readdir src
CopyDir ==
    /\ pc = "copyDir"
    /\ LET dir == readdir(fs, arg.src)
       IN IF dir.err # "OK" THEN Fail(dir.err)
          ELSE Ctl("copyDirItems", arg,
                   Append(stack, [src |-> arg.src, dest |-> arg.dest,
                                  items |-> dir.items,
                                  mode |-> arg.srcStat.mode,
                                  made |-> arg.made]),
                   outcome)
    /\ NoMutation
    /\ UNCHANGED <<inputVars, dialect, results, fds>>

\* The child a dialect takes next: items.pop() in the callback dialect,
\* dir[i] with i counting up in the other two
NextItem(d, items) == IF d = "callback" THEN items[Len(items)] ELSE Head(items)
RestItems(d, items) == IF d = "callback" THEN Front(items) ELSE Tail(items)

\* copyDirItems / copyDirItem / the loop of copyDir: take the next child,
\* or finish the directory
CopyDirItems ==
    /\ pc = "copyDirItems"
    /\ LET frame == stack[Len(stack)]
           below == Front(stack)
       IN IF frame.items = << >>
          THEN IF frame.made
               THEN Ctl("setDestMode",
                        [arg EXCEPT !.dest = frame.dest, !.mode = frame.mode],
                        below, outcome)
               ELSE Return(arg, below)
          ELSE LET item == NextItem(dialect, frame.items)
                   child == [Arg0(join(frame.src, item), join(frame.dest, item))
                               EXCEPT !.top = FALSE]
               IN Ctl("checkPaths", child,
                      Append(below, [frame EXCEPT
                                       !.items = RestItems(dialect, frame.items)]),
                      outcome)
    /\ NoMutation
    /\ UNCHANGED <<inputVars, dialect, results, fds>>

\* The link target as the dialect re-anchors it: the async dialect makes
\* a relative target absolute from the directory of the link; the other
\* two resolve against the working directory when dereference is set.
Anchor(d, link, target) ==
    IF d = "async"
    THEN IF ~isAbsolute(target)
         THEN Abs(resolveFrom(resolve(dirname(link)), target)) ELSE target
    ELSE IF opts.dereference THEN Abs(resolveFrom(Cwd, target)) ELSE target

\* The guard of ERR_FS_COPY_SYMLINK_TO_SUBDIRECTORY: err is the error of
\* the stat it makes, dir whether the stat record is a directory.
\*   async    (await stat(src)).isDirectory()
\*   sync     statSync(dest).isDirectory()
\*   callback destStat.isDirectory(), the record checkPaths obtained
LinkGuardStat(d, f, a) ==
    IF d = "async" THEN stat(f, a.src)
    ELSE IF d = "sync" THEN stat(f, a.dest)
    ELSE StatOk(a.destStat)

\* readlink(dest) in onLink, made only when src was read and dest exists:
\* its result on this filesystem; UNKNOWN where a platform reports that for
\* a dest that is no link; or a failure of its own (EIO).
DestLinkReads(f, a) ==
    LET rd == readlink(f, a.dest)
    IN IF readlink(f, a.src).err # "OK" \/ ~Exists(a.destStat) THEN {rd}
       ELSE {rd, [err |-> "EIO", target |-> NoTarget]} \cup
            (IF rd.err = "EINVAL"
             THEN {[err |-> "UNKNOWN", target |-> NoTarget]} ELSE {})

\* A faulty onLink: a dest that is no link is unlinked before the symlink
onLinkUnlinksFirst(d, f, a, rd) ==
    LET rs == readlink(f, a.src)
        resolvedSrc == Anchor(d, a.src, rs.target)
        res(n) == [next |-> n, target |-> resolvedSrc]
    IN IF rs.err # "OK" THEN res(rs.err)
       ELSE IF ~Exists(a.destStat) THEN res("symlink")
       ELSE IF rd.err \in {"EINVAL", "UNKNOWN"} THEN res("copyLink")
       ELSE IF rd.err # "OK" THEN res(rd.err)
       ELSE res("copyLink")

\* A faulty onLink: the subdirectory test on the two targets is made the
\* other way round
onLinkSubdirSwapped(d, f, a, rd) ==
    LET rs == readlink(f, a.src)
        resolvedSrc == Anchor(d, a.src, rs.target)
        resolvedDest == Anchor(d, a.dest, rd.target)
        g == LinkGuardStat(d, f, a)
        res(n) == [next |-> n, target |-> resolvedSrc]
    IN IF rs.err # "OK" THEN res(rs.err)
       ELSE IF ~Exists(a.destStat) THEN res("symlink")
       ELSE IF rd.err \in {"EINVAL", "UNKNOWN"} THEN res("symlink")
       ELSE IF rd.err # "OK" THEN res(rd.err)
       ELSE IF SubdirOf(d, resolvedDest, resolvedSrc)
       THEN res("ERR_FS_COPY_TO_SUBDIRECTORY")
       ELSE IF g.err # "OK" THEN res(g.err)
       ELSE IF isDirectory(g.st) /\ d = "callback"
       THEN res("TypeError")
       ELSE IF isDirectory(g.st) /\ isSrcSubdir(resolvedDest, resolvedSrc)
       THEN res("ERR_FS_COPY_SYMLINK_TO_SUBDIRECTORY")
       ELSE res("copyLink")

\* onLink: what to do with a source link, as [next, target] where next is
\* a handler or the error raised; rd is the result of readlink(dest)
onLink(d, f, a, rd) ==
    LET rs == readlink(f, a.src)
        resolvedSrc == Anchor(d, a.src, rs.target)
        resolvedDest == Anchor(d, a.dest, rd.target)
        g == LinkGuardStat(d, f, a)
        res(n) == [next |-> n, target |-> resolvedSrc]
    IN IF rs.err # "OK" THEN res(rs.err)
       ELSE IF ~Exists(a.destStat) THEN res("symlink")
       ELSE IF rd.err \in {"EINVAL", "UNKNOWN"} THEN res("symlink")
       ELSE IF rd.err # "OK" THEN res(rd.err)
       ELSE IF SubdirOf(d, resolvedSrc, resolvedDest)
       THEN res("ERR_FS_COPY_TO_SUBDIRECTORY")
       ELSE IF g.err # "OK" THEN res(g.err)
       ELSE IF isDirectory(g.st) /\ d = "callback"
       THEN res("TypeError")  \* stat.isSrcSubdir is not a function
       ELSE IF isDirectory(g.st) /\ isSrcSubdir(resolvedDest, resolvedSrc)
       THEN res("ERR_FS_COPY_SYMLINK_TO_SUBDIRECTORY")
       ELSE res("copyLink")

OnLink ==
    /\ pc = "onLink"
    /\ \E rd \in DestLinkReads(fs, arg) :
         LET r == onLink(dialect, fs, arg, rd)
         IN /\ IF r.next \in {"symlink", "copyLink"}
               THEN Goto(r.next, [arg EXCEPT !.target = r.target])
               ELSE Fail(r.next)
            /\ faulted' = (faulted \/ rd.err = "EIO")
    /\ UNCHANGED <<fs, clock, log, inflight>>
    /\ UNCHANGED <<inputVars, dialect, results, fds>>

\* copyLink: unlink the destination link before it is made again
CopyLink ==
    /\ pc = "copyLink"
    /\ \E inj \in Inject :
         LET r == Res(inj, unlink(fs, arg.dest, clock))
         IN /\ Mutate("unlink", arg.dest, r, inj)
            /\ IF r.err = "OK" THEN Goto("symlink", arg) ELSE Fail(r.err)
    /\ UNCHANGED <<inputVars, dialect, results, fds>>

\* symlink(resolvedSrc, dest)
Symlink ==
    /\ pc = "symlink"
    /\ \E inj \in Inject :
         LET r == Res(inj, symlink(fs, arg.target, arg.dest, clock))
         IN /\ Mutate("symlink", arg.dest, r, inj)
            /\ IF r.err = "OK" THEN Return(arg, stack) ELSE Fail(r.err)
    /\ UNCHANGED <<inputVars, dialect, results, fds>>

\* What a copy leaves behind that a caller can observe: for every path
\* its kind, mode, contents and link target.
View(f) ==
    [q \in DOMAIN f |-> [kind |-> f[q].kind, mode |-> f[q].mode,
                         data |-> f[q].data, target |-> f[q].target]]

Index(d) == CHOOSE i \in 1..Len(Dialects) : Dialects[i] = d

\* The copy has returned.  The same call is then made in the next dialect
\* on the same initial filesystem, unless this run met an EIO failure.
NextDialect ==
    /\ pc = "done"
    /\ results' = [results EXCEPT ![dialect] =
                     [outcome |-> outcome, fs |-> View(fs), log |-> log]]
    /\ IF faulted \/ Index(dialect) = Len(Dialects)
       THEN /\ pc' = "end"
            /\ UNCHANGED <<fs, clock, log, dialect, arg, stack, outcome, calls,
                           faulted, inflight, fds>>
       ELSE /\ dialect' = Dialects[Index(dialect) + 1]
            /\ fs' = fs0
            /\ clock' = 1
            /\ log' = << >>
            /\ pc' = "copyFn"
            /\ arg' = Arg0(src0, dest0)
            /\ stack' = NoStack
            /\ outcome' = "pending"
            /\ calls' = 0
            /\ faulted' = FALSE
            /\ inflight' = {}
            /\ fds' = 0
    /\ UNCHANGED inputVars

Next ==
    \/ CopyFn
    \/ CheckPaths
    \/ CheckParentPaths
    \/ HandleFilter
    \/ CheckParentDir
    \/ StartCopy
    \/ GetStatsForCopy
    \/ OnFile
    \/ MayCopyFile
    \/ CopyFile
    \/ HandleTimestampsAndMode
    \/ SetDestTimestamps
    \/ SetDestMode
    \/ OnDir
    \/ MkDirAndCopy
    \/ CopyDir
    \/ CopyDirItems
    \/ OnLink
    \/ CopyLink
    \/ Symlink
    \/ NextDialect

Spec == Init /\ [][Next]_vars

\* The event loop runs every pending continuation: a step that can be taken
\* is taken.  (For the step of checkParentDir, which leaves that handler
\* whenever it is taken, the condition is written on pc, so that the
\* recursive mkdir is not evaluated again for it.)
FairSpec ==
    /\ Spec
    /\ WF_vars(pc # "checkParentDir" /\ Next)
    /\ []<>(pc # "checkParentDir")

\* The same call made twice in succession in one dialect, as the tests do
\* (copySync(src, dest) followed by copy(src, dest)): a call in any of the
\* dialects, and after its success the same call again on the filesystem
\* the first one left.  results keeps what the first call left behind.
InitTwice ==
    /\ fs0 \in Fixtures
    /\ \E pr \in Pairs : src0 = pr[1] /\ dest0 = pr[2]
    /\ opts \in OptionBags
    /\ fs = fs0
    /\ clock = 1
    /\ log = << >>
    /\ dialect \in {Dialects[i] : i \in 1..Len(Dialects)}
    /\ pc = "copyFn"
    /\ arg = Arg0(src0, dest0)
    /\ stack = NoStack
    /\ outcome = "pending"
    /\ calls = 0
    /\ faulted = FALSE
    /\ results = [d \in {Dialects[i] : i \in 1..Len(Dialects)} |-> NoResult]
    /\ inflight = {}
    /\ fds = 0

CopyAgain ==
    /\ pc = "done" /\ outcome = "OK" /\ ~faulted
    /\ results[dialect] = NoResult
    /\ results' = [results EXCEPT ![dialect] =
                     [outcome |-> outcome, fs |-> View(fs), log |-> log]]
    /\ pc' = "copyFn"
    /\ arg' = Arg0(src0, dest0)
    /\ stack' = NoStack
    /\ outcome' = "pending"
    /\ calls' = 0
    /\ log' = << >>
    /\ UNCHANGED <<fs, clock, faulted, dialect, inputVars, inflight, fds>>

NextTwice ==
    \/ CopyFn
    \/ CheckPaths
    \/ CheckParentPaths
    \/ HandleFilter
    \/ CheckParentDir
    \/ StartCopy
    \/ GetStatsForCopy
    \/ OnFile
    \/ MayCopyFile
    \/ CopyFile
    \/ HandleTimestampsAndMode
    \/ SetDestTimestamps
    \/ SetDestMode
    \/ OnDir
    \/ MkDirAndCopy
    \/ CopyDir
    \/ CopyDirItems
    \/ OnLink
    \/ CopyLink
    \/ Symlink
    \/ CopyAgain

TwiceSpec == InitTwice /\ [][NextTwice]_vars

\* ------------------------------------------------------------------------
\* Calls in flight.  A handler of the callback or the async dialect issues
\* its filesystem call and yields; its continuation runs when the call has
\* completed.  IssueCall is the first half, the handler's action the second.
\* ------------------------------------------------------------------------

\* A faulty table: mayCopyFile goes on to the byte copy without waiting for
\* its unlink
IssuedUnawaited ==
    IF pc = "mayCopyFile" /\ OverwriteFlag(dialect, opts)
    THEN {"unlink", "copyFile"}
    ELSE IF pc \in {"_copyFile", "setDestMode"} THEN {pc}
    ELSE {}

\* The mutating calls that the handler about to run issues before it yields
Issued ==
    IF pc = "checkParentDir"
    THEN LET st == stat(fs, dirname(arg.dest))
         IN IF st.err = "OK" \/ (st.err # "ENOENT" /\ dialect # "sync")
            THEN {} ELSE {"mkdir"}
    ELSE IF pc = "mayCopyFile"
    THEN IF OverwriteFlag(dialect, opts) THEN {"unlink"} ELSE {}
    ELSE IF pc = "_copyFile" THEN {"copyFile"}
    ELSE IF pc = "handleTimestampsAndMode"
    THEN IF fileIsNotWritable(arg.mode) THEN {"chmod"} ELSE {}
    ELSE IF pc = "setDestTimestamps"
    THEN IF stat(fs, arg.src).err = "OK" THEN {"futimes"} ELSE {}
    ELSE IF pc = "setDestMode" THEN {"chmod"}
    ELSE IF pc = "mkDirAndCopy" THEN {"mkdir"}
    ELSE IF pc = "copyLink" THEN {"unlink"}
    ELSE IF pc = "symlink" THEN {"symlink"}
    ELSE {}

\* The copy starts in the callback dialect; the async dialect follows
InitConc ==
    /\ InitTwice
    /\ dialect = "callback"

IssueCall ==
    /\ inflight = {}
    /\ Issued # {}
    /\ inflight' = Issued
    /\ UNCHANGED <<fs, clock, log, inputVars, dialect, ctlVars, faulted,
                   results, fds>>

\* The call that the handler issued, if any, is in flight: its completion
\* runs the handler's continuation
Completing == inflight = Issued

NextConc ==
    \/ IssueCall
    \/ Completing /\ CopyFn
    \/ Completing /\ CheckPaths
    \/ Completing /\ CheckParentPaths
    \/ Completing /\ HandleFilter
    \/ Completing /\ CheckParentDir
    \/ Completing /\ StartCopy
    \/ Completing /\ GetStatsForCopy
    \/ Completing /\ OnFile
    \/ Completing /\ MayCopyFile
    \/ Completing /\ CopyFile
    \/ Completing /\ HandleTimestampsAndMode
    \/ Completing /\ SetDestTimestamps
    \/ Completing /\ SetDestMode
    \/ Completing /\ OnDir
    \/ Completing /\ MkDirAndCopy
    \/ Completing /\ CopyDir
    \/ Completing /\ CopyDirItems
    \/ Completing /\ OnLink
    \/ Completing /\ CopyLink
    \/ Completing /\ Symlink
    \/ Completing /\ NextDialect

ConcSpec == InitConc /\ [][NextConc]_vars

\* ------------------------------------------------------------------------
\* The path and identity predicates on their own, applied to every pair of
\* path strings and of stat records within the bounds
\* ------------------------------------------------------------------------

PathChars == {"/", "a", "b"}
MaxPathLen == 4
PathStrings == UNION {[1..n -> PathChars] : n \in 0..MaxPathLen}

\* StringPrototypeSplit(path, sep): the parts of str from position i on,
\* cur being the part read so far
RECURSIVE SplitPath(_, _, _)
SplitPath(str, i, cur) ==
    IF i > Len(str) THEN <<cur>>
    ELSE IF str[i] = "/" THEN <<cur>> \o SplitPath(str, i + 1, "")
    ELSE SplitPath(str, i + 1, cur \o str[i])

\* ArrayPrototypeFilter(parts, Boolean): the empty parts are dropped
FilterBoolean(parts) == SelectSeq(parts, LAMBDA x : x # "")

\* The path a string denotes: absolute if it starts with the separator
PathOf(str) ==
    [abs |-> Len(str) > 0 /\ str[1] = "/",
     comps |-> FilterBoolean(SplitPath(str, 1, ""))]

MaxIno == 2
StatRecords == [ino : 0..MaxIno, dev : 0..MaxIno]

InitPure ==
    /\ pc \in {"isSrcSubdir", "areIdentical"}
    /\ arg \in IF pc = "isSrcSubdir"
               THEN [src : PathStrings, dest : PathStrings]
               ELSE [src : StatRecords, dest : StatRecords]
    /\ fs0 = Fixture
    /\ src0 = NoTarget
    /\ dest0 = NoTarget
    /\ opts = CHOOSE o \in OptionBags : TRUE
    /\ fs = fs0
    /\ clock = 1
    /\ log = << >>
    /\ dialect = "sync"
    /\ stack = NoStack
    /\ outcome = "pending"
    /\ calls = 0
    /\ faulted = FALSE
    /\ results = NoResult
    /\ inflight = {}
    /\ fds = 0

\* isSrcSubdir(src, dest) as the async and the blocking dialect compute it
\* (every) and as the callback dialect does (reduce)
IsSrcSubdirCall ==
    /\ pc = "isSrcSubdir"
    /\ pc' = "returned"
    /\ results' = [fn |-> "isSrcSubdir",
                   every |-> isSrcSubdir(PathOf(arg.src), PathOf(arg.dest)),
                   reduce |-> isSrcSubdirCb(PathOf(arg.src), PathOf(arg.dest))]
    /\ UNCHANGED <<fs, clock, log, inputVars, dialect, arg, stack, outcome,
                   calls, faulted, inflight, fds>>

\* areIdentical(srcStat, destStat)
AreIdenticalCall ==
    /\ pc = "areIdentical"
    /\ pc' = "returned"
    /\ results' = [fn |-> "areIdentical",
                   identical |-> areIdentical(arg.src, arg.dest)]
    /\ UNCHANGED <<fs, clock, log, inputVars, dialect, arg, stack, outcome,
                   calls, faulted, inflight, fds>>

NextPure ==
    \/ IsSrcSubdirCall
    \/ AreIdenticalCall

PureSpec == InitPure /\ [][NextPure]_vars

\* ------------------------------------------------------------------------
\* Properties
\* ------------------------------------------------------------------------

DialectSet == {Dialects[i] : i \in 1..Len(Dialects)}

\* The copy of the running dialect has returned
Returned == pc \in {"done", "end"}

\* All three dialects have run the call, none meeting an EIO failure
AllDone == pc = "end" /\ ~faulted

SameInode(a, b) == a.ino = b.ino /\ a.dev = b.dev /\ a.ino # 0 /\ a.dev # 0

IsPrefix(a, b) == Len(a) <= Len(b) /\ SubSeq(b, 1, Len(a)) = a

\* The stat records of the top-level pair before the call
SrcStat0 == statFunc(fs0, src0)
DestStat0 == statFunc(fs0, dest0)

\* C1: for the same initial filesystem and the same call, the three
\* dialects leave the same filesystem and return the same outcome.
C1_DialectsAgree ==
    AllDone =>
        \A d1, d2 \in DialectSet :
            /\ results[d1].outcome = results[d2].outcome
            /\ results[d1].fs = results[d2].fs

\* dest exists and src and dest are the same nonzero (dev, ino), as stat
\* sees them under dereference and lstat otherwise
C2_Pre ==
    /\ SrcStat0.err = "OK"
    /\ DestStat0.err = "OK"
    /\ SameInode(SrcStat0.st, DestStat0.st)

\* C2: when dest exists and src and dest are the same nonzero (dev, ino),
\* the copy fails with ERR_FS_COPY_TO_SUBDIRECTORY right after checkPaths
\* and has changed nothing; so does copy(p, p) for an existing p.
C2_IdenticalRejected ==
    C2_Pre =>
        /\ fs = fs0
        /\ log = << >>
        /\ \/ pc \in {"copyFn", "checkPaths"}
           \/ Returned /\ outcome = "ERR_FS_COPY_TO_SUBDIRECTORY"

\* C2 witness: src reaches the inode of dest through a link (dereference)
C2_Witness == C2_Pre /\ pc = "done" /\ src0 # dest0

\* src is a directory whose components are a prefix of those of dest
C3_Pre ==
    /\ SrcStat0.err = "OK"
    /\ isDirectory(SrcStat0.st)
    /\ IsPrefix(resolve(src0), resolve(dest0))

\* C3 as claimed: a directory src whose components are a prefix of those of
\* dest fails with ERR_FS_COPY_TO_SUBDIRECTORY before any mutation, whether
\* or not dest exists.
C3_Original ==
    C3_Pre =>
        /\ log = << >>
        /\ \/ pc \in {"copyFn", "checkPaths"}
           \/ Returned /\ outcome = "ERR_FS_COPY_TO_SUBDIRECTORY"

\* C3 amended: such a copy fails before any mutation; the error is
\* ERR_FS_COPY_DIR_TO_NON_DIR when dest exists and is not a directory (that
\* check comes first) and ERR_FS_COPY_TO_SUBDIRECTORY when dest is absent or
\* is a directory.
C3_SubdirRejected ==
    C3_Pre /\ DestStat0.err \in {"OK", "ENOENT"} =>
        /\ fs = fs0
        /\ log = << >>
        /\ \/ pc \in {"copyFn", "checkPaths"}
           \/ /\ Returned
              /\ outcome = IF DestStat0.err = "OK" /\ ~isDirectory(DestStat0.st)
                           THEN "ERR_FS_COPY_DIR_TO_NON_DIR"
                           ELSE "ERR_FS_COPY_TO_SUBDIRECTORY"

\* C3 witness: dest is an absent path inside src
C3_Witness ==
    C3_Pre /\ DestStat0.err = "ENOENT" /\ pc = "done" /\ src0 # dest0

\* The ancestors of a path, from its parent up to the root
Ancestors(comps) == {SubSeq(comps, 1, n) : n \in 0..(Len(comps) - 1)}

\* C4: when the top-level pre-flight has passed, no existing ancestor of
\* dest is the same (dev, ino) as src.
C4_NoAncestorIsSrc ==
    pc = "handleFilter" =>
        \A P \in Ancestors(resolve(dest0)) :
            stat(fs, Abs(P)).err = "OK" =>
                ~SameInode(arg.srcStat, stat(fs, Abs(P)).st)

\* The last mutating call issued
LastCall(l) == l[Len(l)]

\* This step issues exactly one mutating call: op on path
Issues(op, path) ==
    /\ Len(log') = Len(log) + 1
    /\ SubSeq(log', 1, Len(log)) = log
    /\ LastCall(log').op = op
    /\ LastCall(log').path = path

\* No directory of the initial filesystem has become a non-directory and
\* no non-directory has become a directory
KindStable ==
    \A q \in DOMAIN fs0 :
        IF fs0[q].kind = "dir"
        THEN q \in DOMAIN fs /\ fs[q].kind = "dir"
        ELSE q \in DOMAIN fs => fs[q].kind # "dir"

\* The pair about to be checked has an existing dest, and exactly one of
\* src and dest is a directory
C5_Mismatch(srcIsDir) ==
    /\ pc = "checkPaths"
    /\ statFunc(fs, arg.src).err = "OK"
    /\ statFunc(fs, arg.dest).err = "OK"
    /\ isDirectory(statFunc(fs, arg.src).st) = srcIsDir
    /\ isDirectory(statFunc(fs, arg.dest).st) = ~srcIsDir

\* C5: at every depth, a pair whose dest exists with src a directory and
\* dest not one fails with ERR_FS_COPY_DIR_TO_NON_DIR, and with src not a
\* directory and dest one fails with ERR_FS_COPY_NON_DIR_TO_DIR, nothing
\* being changed; no directory is ever replaced by a non-directory or the
\* reverse.
C5_TypeCompatible ==
    /\ [][/\ C5_Mismatch(TRUE) =>
                /\ pc' = "done"
                /\ outcome' = "ERR_FS_COPY_DIR_TO_NON_DIR"
                /\ fs' = fs /\ log' = log
          /\ C5_Mismatch(FALSE) =>
                /\ pc' = "done"
                /\ outcome' = "ERR_FS_COPY_NON_DIR_TO_DIR"
                /\ fs' = fs /\ log' = log]_vars
    /\ []KindStable

\* C5 witness: a child file met a directory at dest
C5_Witness ==
    pc = "done" /\ ~arg.top /\ outcome = "ERR_FS_COPY_NON_DIR_TO_DIR"

\* The outcome the dispatcher is to give for a kind of src
C6_Expected(kind) ==
    CASE kind = "dir" -> pc' = "onDir" /\ outcome' = "pending"
      [] kind \in {"file", "chardev", "blockdev"} ->
           pc' = "onFile" /\ outcome' = "pending"
      [] kind = "link" -> pc' = "onLink" /\ outcome' = "pending"
      [] kind = "socket" -> pc' = "done" /\ outcome' = "ERR_FS_COPY_SOCKET"
      [] kind = "fifo" -> pc' = "done" /\ outcome' = "ERR_FS_COPY_FIFO_PIPE"
      [] OTHER -> pc' = "done" /\ outcome' = "ERR_FS_COPY_UNKNOWN"

\* C6: the dispatcher sends a directory to the directory copier, a regular
\* file or a character or block device to the file copier, a symbolic link
\* to the link copier, and fails with ERR_FS_COPY_SOCKET for a socket,
\* ERR_FS_COPY_FIFO_PIPE for a FIFO and ERR_FS_COPY_UNKNOWN for anything
\* else, whatever the dialect.
C6_Dispatch ==
    [][pc = "getStatsForCopy" /\ statFunc(fs, arg.src).err = "OK" =>
          /\ C6_Expected(statFunc(fs, arg.src).st.kind)
          /\ fs' = fs /\ log' = log]_vars

\* C6 witness: a character device reached the file copier in the callback
\* dialect
C6_Witness ==
    pc = "onFile" /\ arg.srcStat.kind = "chardev" /\ dialect = "callback"

\* The overwrite flag as the running dialect names it
C7_Flag == IF dialect = "async" THEN opts.force ELSE opts.overwrite

\* C7: for a file pair whose dest exists exactly one policy applies.  With
\* the overwrite flag: unlink dest, then the byte copy, and no byte copy if
\* the unlink fails.  Else with errorOnExist: ERR_FS_COPY_EEXIST, nothing
\* changed.  Else the pair completes with no error and no mutation.  With
\* both flags the overwrite policy wins.
C7_Policy ==
    [][/\ pc = "mayCopyFile" =>
            IF C7_Flag
            THEN /\ Issues("unlink", arg.dest)
                 /\ IF LastCall(log').err = "OK"
                    THEN pc' = "_copyFile" /\ outcome' = "pending"
                    ELSE pc' = "done" /\ outcome' = LastCall(log').err
            ELSE IF opts.errorOnExist
            THEN /\ pc' = "done" /\ outcome' = "ERR_FS_COPY_EEXIST"
                 /\ fs' = fs /\ log' = log
            ELSE /\ fs' = fs /\ log' = log
                 /\ IF stack = NoStack THEN pc' = "done" /\ outcome' = "OK"
                    ELSE pc' = "copyDirItems" /\ outcome' = "pending"
       /\ pc = "_copyFile" => Issues("copyFile", arg.dest)]_vars

\* C7 witness: both flags set, dest existed and has been unlinked
C7_Witness ==
    /\ pc = "_copyFile"
    /\ Exists(arg.destStat)
    /\ C7_Flag /\ opts.errorOnExist
    /\ log # << >> /\ LastCall(log).op = "unlink" /\ LastCall(log).err = "OK"

\* C8: in every dialect, with force set, a regular file that exists at
\* dest is removed and replaced by a copy of the source file.
C8_ForceReplaces ==
    [][pc = "mayCopyFile" /\ opts.force /\ isFile(arg.srcStat)
          /\ isFile(arg.destStat) =>
            /\ Issues("unlink", arg.dest)
            /\ LastCall(log').err = "OK" => pc' = "_copyFile"]_vars

SrcOf(destComps) ==
    Abs(resolve(src0) \o
        SubSeq(destComps, Len(resolve(dest0)) + 1, Len(destComps)))

\* Every mutating call at or below dest0 is on a path that the filter
\* accepts, as it accepts every directory from dest0 down to that path.
\* (A path the filter rejects now was rejected when it was visited: the
\* filters depend on the name and on the path being a directory, and a
\* directory stays one.)
LogRespectsFilter ==
    \A i \in 1..Len(log) :
        LET target == resolve(log[i].path)
        IN IsPrefix(resolve(dest0), target) =>
             \A n \in Len(resolve(dest0))..Len(target) :
                Filter(opts.filter, fs, SrcOf(SubSeq(target, 1, n)),
                       Abs(SubSeq(target, 1, n)))

\* The step of a pair for which the filter returns false: nothing is
\* changed, no error is raised, and control goes back to the enclosing
\* directory loop, or the copy completes
C10_Step ==
    (/\ pc \in {"handleFilter", "startCopy"}
     /\ opts.filter # "none"
     /\ ~Filter(opts.filter, fs, arg.src, arg.dest))
    => /\ fs' = fs /\ log' = log /\ stack' = stack
       /\ pc' = (IF stack = NoStack THEN "done" ELSE "copyDirItems")
       /\ outcome' = (IF stack = NoStack THEN "OK" ELSE "pending")

\* C10: a pair for which the filter returns false is skipped silently: no
\* error, no mutation at dest or below, a directory src is not read, and
\* the traversal goes on with the next sibling.  (The filter is asked once
\* the pre-flight of the pair has passed.)
C10_FilterSkips ==
    /\ [][C10_Step]_vars
    /\ [](opts.filter # "none" => LogRespectsFilter)

\* C10 witness: the directory a was rejected and its parent goes on
C10_Witness ==
    /\ pc = "copyDirItems" /\ opts.filter = "skipA"
    /\ ~arg.top /\ Last(arg.src.comps) = "a" /\ isDirectory(arg.srcStat)
    /\ log # << >>

\* The directory an argument of the call names, link-free, and the entries
\* at and below a directory as (relative path, kind)
RootOfArg(f, p) == Physical(f, p, FALSE).path

Shape(f, root) ==
    {<<SubSeq(q, Len(root) + 1, Len(q)), f[q].kind>> :
        q \in {x \in DOMAIN f : IsPrefix(root, x)}}

\* A directory has been copied with success to a dest that did not exist,
\* without filter and without dereference
C11_Pre ==
    /\ pc = "done" /\ outcome = "OK"
    /\ opts.filter = "none" /\ ~opts.dereference
    /\ lstat(fs0, src0).err = "OK" /\ isDirectory(lstat(fs0, src0).st)
    /\ lstat(fs0, dest0).err = "ENOENT"

\* C11: after a successful copy of a directory tree to a dest that did not
\* exist, with no filter and dereference false, dest holds an entry of the
\* same kind at the relative path of every entry of src, and nothing else.
C11_SameShape ==
    C11_Pre =>
        /\ lstat(fs, dest0).err = "OK"
        /\ Shape(fs, RootOfArg(fs, dest0)) = Shape(fs, RootOfArg(fs, src0))
        /\ Shape(fs, RootOfArg(fs, src0)) = Shape(fs0, RootOfArg(fs0, src0))

\* C11 witness: a tree with a file and two links has been copied by the
\* callback dialect
C11_Witness ==
    /\ C11_Pre /\ dialect = "callback"
    /\ \E e \in Shape(fs, RootOfArg(fs, dest0)) : e[2] = "link"
    /\ \E e \in Shape(fs, RootOfArg(fs, dest0)) : e[2] = "file"

\* The successful calls of an operation at or below dest0, as log positions
Made(op) ==
    {i \in 1..Len(log) :
        /\ log[i].op = op /\ log[i].err = "OK"
        /\ IsPrefix(resolve(dest0), resolve(log[i].path))}

\* The mode of the source entry of a dest path, as the copy stats it
SrcMode(path) == statFunc(fs, SrcOf(resolve(path))).st.mode

C13_Step ==
    (pc = "setDestTimestamps" /\ Issues("futimes", arg.dest)
        /\ LastCall(log').err = "OK") =>
        LET updated == stat(fs, arg.src).st
        IN /\ stat(fs', arg.dest).st.atime = updated.atime
           /\ stat(fs', arg.dest).st.mtime = updated.mtime

\* After a successful copy with preserveTimestamps, the times of every
\* byte-copied file were set after the byte copy, and its mtime is that of
\* its source
C13_Final ==
    (pc = "done" /\ outcome = "OK" /\ opts.preserveTimestamps) =>
        \A i \in Made("copyFile") :
            /\ \E j \in (i + 1)..Len(log) :
                  /\ log[j].op = "futimes" /\ log[j].err = "OK"
                  /\ log[j].path = log[i].path
            /\ stat(fs, log[i].path).st.mtime =
                  stat(fs, SrcOf(resolve(log[i].path))).st.mtime

\* C13: with preserveTimestamps, every byte-copied file gets the atime and
\* the mtime that a stat of src taken after the byte copy reports, so that
\* after a successful copy mtime(dest) = mtime(src).
C13_Timestamps == [][C13_Step /\ C13_Final']_vars

\* C13 witness: a copy with preserveTimestamps has ended with success; it
\* wrote a file whose source atime was moved by the byte copy, and dest has
\* that atime and the mtime of the source
C13_Witness ==
    /\ pc = "done" /\ outcome = "OK" /\ opts.preserveTimestamps
    /\ \E i \in Made("copyFile") :
          LET d == stat(fs, log[i].path).st
              q == stat(fs, SrcOf(resolve(log[i].path))).st
          IN /\ q.atime > stat(fs0, SrcOf(resolve(log[i].path))).st.atime
             /\ d.atime = q.atime /\ d.mtime = q.mtime

\* The symbolic links of the initial filesystem at or below src, as
\* relative paths
SrcLinks ==
    {e[1] : e \in {x \in Shape(fs0, RootOfArg(fs0, src0)) : x[2] = "link"}}

\* C14: with dereference true no symlink call is ever made and no link
\* handler is entered; after a successful copy to a dest that did not exist,
\* a source link that resolves to a regular file has a regular file at its
\* place in dest, and one that resolves to a directory has a directory.
C14_Dereference ==
    opts.dereference =>
        /\ pc \notin {"onLink", "copyLink", "symlink"}
        /\ \A i \in 1..Len(log) : log[i].op # "symlink"
        /\ (pc = "done" /\ outcome = "OK" /\ opts.filter = "none"
                /\ lstat(fs0, dest0).err = "ENOENT") =>
              \A rel \in SrcLinks :
                  LET q == stat(fs0, Abs(RootOfArg(fs0, src0) \o rel))
                      d == lstat(fs, Abs(RootOfArg(fs, dest0) \o rel))
                  IN (q.err = "OK" /\ q.st.kind \in {"file", "dir"}) =>
                       (d.err = "OK" /\ d.st.kind = q.st.kind)

\* C14 witness: with dereference true a tree that holds a link to a file
\* and a link to a directory has been copied with success
C14_Witness ==
    /\ opts.dereference /\ pc = "done" /\ outcome = "OK"
    /\ lstat(fs0, dest0).err = "ENOENT"
    /\ \E rel \in SrcLinks :
          lstat(fs, Abs(RootOfArg(fs, dest0) \o rel)).st.kind = "file"
    /\ \E rel \in SrcLinks :
          lstat(fs, Abs(RootOfArg(fs, dest0) \o rel)).st.kind = "dir"

\* onLink runs on a source link whose dest exists and is not a link, so
\* that readlink(dest) fails with EINVAL (UNKNOWN on Windows)
C15_Pre ==
    /\ pc = "onLink" /\ Exists(arg.destStat)
    /\ readlink(fs, arg.src).err = "OK"
    /\ readlink(fs, arg.dest).err = "EINVAL"

\* The onLink step in that case: nothing is unlinked; the next step is the
\* symlink call on dest, or the copy ends with the other readlink error
C15_ReadStep ==
    C15_Pre =>
        /\ log' = log /\ fs' = fs
        /\ \/ /\ pc' = "symlink" /\ outcome' = outcome
              /\ arg'.dest = arg.dest
              /\ arg'.target =
                    Anchor(dialect, arg.src, readlink(fs, arg.src).target)
           \/ pc' = "done" /\ outcome' = "EIO" /\ faulted'

\* The symlink step on a dest that still exists: the call is made and its
\* error is the error of the copy
C15_SymlinkStep ==
    (pc = "symlink" /\ lstat(fs, arg.dest).err = "OK") =>
        /\ Issues("symlink", arg.dest) /\ fs' = fs
        /\ pc' = "done" /\ outcome' = LastCall(log').err
        /\ outcome' = "EEXIST" \/ (outcome' = "EIO" /\ faulted')

\* C15: when a source link is copied onto an existing dest that is not a
\* link, dest is not unlinked: on EINVAL or UNKNOWN from readlink(dest)
\* the next step is symlink(resolvedSrc, dest), whose EEXIST is the error of
\* the copy; any other readlink error is the error of the copy and no
\* symlink call is made.
C15_LinkOntoFile == [][C15_ReadStep /\ C15_SymlinkStep]_vars

\* C15 witness: a copy has ended with the EEXIST of a symlink call on a
\* dest that is a regular file, and no unlink was issued
C15_Witness ==
    /\ pc = "done" /\ outcome = "EEXIST" /\ ~faulted
    /\ log # << >> /\ LastCall(log).op = "symlink"
    /\ isFile(lstat(fs, LastCall(log).path).st)
    /\ \A i \in 1..Len(log) : log[i].op # "unlink"

\* The targets of the source link and of the dest link of the pair in
\* onLink, resolved as the running dialect resolves them
ResolvedSrc == resolve(Anchor(dialect, arg.src, readlink(fs, arg.src).target))

ResolvedDest ==
    resolve(Anchor(dialect, arg.dest, readlink(fs, arg.dest).target))

\* onLink runs on a source link whose dest is a link too
C16_Pre ==
    /\ pc = "onLink" /\ Exists(arg.destStat)
    /\ readlink(fs, arg.src).err = "OK"
    /\ readlink(fs, arg.dest).err = "OK"

C17_Pre ==
    /\ C16_Pre
    /\ stat(fs, arg.src).err = "OK" /\ isDirectory(stat(fs, arg.src).st)
    /\ IsPrefix(ResolvedDest, ResolvedSrc)
    /\ ~IsPrefix(ResolvedSrc, ResolvedDest)

\* C17: in every dialect, a source link to a directory whose target lies
\* under the target of the existing dest link is refused with
\* ERR_FS_COPY_SYMLINK_TO_SUBDIRECTORY (or with the error of a failing
\* readlink(dest)), and the dest link is not unlinked.
C17_SymlinkToSubdirectory ==
    [][C17_Pre =>
          /\ fs' = fs /\ log' = log /\ pc' = "done"
          /\ \/ outcome' = "ERR_FS_COPY_SYMLINK_TO_SUBDIRECTORY"
             \/ outcome' = "EIO" /\ faulted']_vars

\* The entries at and below a directory with what a copy reproduces of
\* them: relative path, kind, contents and link target
Content(f, root) ==
    {<<SubSeq(q, Len(root) + 1, Len(q)), f[q].kind, f[q].data, f[q].target>> :
        q \in {x \in DOMAIN f : IsPrefix(root, x)}}

\* src is a directory tree that holds a symbolic link, dest is already a
\* copy of it, and no option is set
C18_Pre ==
    /\ lstat(fs0, src0).err = "OK" /\ isDirectory(lstat(fs0, src0).st)
    /\ lstat(fs0, dest0).err = "OK"
    /\ RootOfArg(fs0, src0) # RootOfArg(fs0, dest0)
    /\ Content(fs0, RootOfArg(fs0, dest0)) = Content(fs0, RootOfArg(fs0, src0))
    /\ \E e \in Content(fs0, RootOfArg(fs0, src0)) : e[2] = "link"
    /\ opts = [dereference |-> FALSE, preserveTimestamps |-> FALSE,
               force |-> FALSE, overwrite |-> FALSE, errorOnExist |-> FALSE,
               filter |-> "none"]

\* C18: a copy of a directory tree with files and symbolic links onto a
\* dest that is already a copy of it, with no option set, ends without
\* error and leaves every file of dest as it was (no fs call failing for a
\* reason of its own).
C18_CopyOverCopy ==
    (pc = "done" /\ C18_Pre /\ ~faulted) =>
        /\ outcome = "OK"
        /\ \A q \in DOMAIN fs0 :
              (IsPrefix(RootOfArg(fs0, dest0), q) /\ fs0[q].kind = "file")
                => (q \in DOMAIN fs /\ fs[q] = fs0[q])

\* The completion callback of the callback dialect: not invoked while the
\* copy runs, invoked once when it has ended; without error only if no call
\* failed, and with the error of the failed call otherwise
C19_Once ==
    dialect = "callback" =>
        /\ calls = (IF pc \in {"done", "end"} THEN 1 ELSE 0)
        /\ (calls = 0) <=> (outcome = "pending")
        /\ \A i \in 1..(Len(log) - 1) : log[i].err = "OK"
        /\ (outcome = "OK") => \A i \in 1..Len(log) : log[i].err = "OK"
        /\ (calls = 1 /\ log # << >> /\ LastCall(log).err # "OK")
              => outcome = LastCall(log).err

\* A copy that has not ended can take a step.  For checkParentDir the step
\* is spelled out: the stat of the parent and, where it is called, the
\* recursive mkdir yield a result
C19_CanStep ==
    Returned \/
    IF pc = "checkParentDir"
    THEN LET destParent == dirname(arg.dest)
         IN \/ stat(fs, destParent).err # "ENOENT"
            \/ mkdirp(fs, destParent, clock, Len(resolve(destParent))).err
                  \in {"OK", "EEXIST", "ENOENT", "ENOTDIR", "ELOOP",
                       "ENAMETOOLONG"}
    ELSE ENABLED Next

C20_Stopped ==
    /\ (outcome \notin {"pending", "OK"}) =>
          (pc \in {"done", "end"} /\ stack = NoStack)
    /\ \A i \in 1..(Len(log) - 1) : log[i].err = "OK"

\* A step in which a call fails ends the copy with the error of that call,
\* whatever directories enclose the pair; a step that raises an error of
\* its own ends the copy too; and a copy that has an error makes no further
\* call and changes nothing
C20_Step ==
    /\ (Len(log') = Len(log) + 1 /\ LastCall(log').err # "OK") =>
          /\ pc' = "done" /\ stack' = NoStack
          /\ outcome' = LastCall(log').err
    /\ (outcome = "pending" /\ outcome' \notin {"pending", "OK"}) =>
          (pc' = "done" /\ stack' = NoStack)
    /\ (outcome \notin {"pending", "OK"} /\ dialect' = dialect) =>
          (fs' = fs /\ log' = log /\ outcome' = outcome)

\* C20: the error a copy returns is the first one met in the traversal:
\* the step that fails ends the copy with its error, no later sibling is
\* visited and no further call changes the filesystem, the final chmod of
\* the enclosing directories included.
C20_FirstError == [][C20_Step /\ C20_Stopped']_vars

\* C20 witness: a copy has ended with the error of a call that failed
\* inside a directory the copy had created; that directory did not get its
\* final chmod
C20_Witness ==
    /\ pc = "done" /\ outcome \notin {"pending", "OK"}
    /\ log # << >> /\ LastCall(log).err = outcome
    /\ \E i \in Made("mkdir") :
          /\ IsPrefix(resolve(log[i].path), resolve(LastCall(log).path))
          /\ log[i].path # LastCall(log).path
          /\ \A j \in 1..Len(log) :
                ~(log[j].op = "chmod" /\ log[j].path = log[i].path)

\* The errors of the pre-flight checks
PreflightErrors ==
    {"ERR_FS_COPY_TO_SUBDIRECTORY", "ERR_FS_COPY_DIR_TO_NON_DIR",
     "ERR_FS_COPY_NON_DIR_TO_DIR"}

\* The top-level pair is illegal by the stat records of src and dest: same
\* inode, directory onto non-directory, non-directory onto directory, or
\* dest under a directory src by path prefix
IllegalByStats ==
    /\ SrcStat0.err = "OK" /\ DestStat0.err \in {"OK", "ENOENT"}
    /\ \/ DestStat0.err = "OK" /\ SameInode(SrcStat0.st, DestStat0.st)
       \/ /\ DestStat0.err = "OK"
          /\ isDirectory(SrcStat0.st) # isDirectory(DestStat0.st)
       \/ isDirectory(SrcStat0.st) /\ IsPrefix(resolve(src0), resolve(dest0))

\* The top-level pair is illegal by an ancestor of dest that is src
IllegalByAncestor ==
    /\ SrcStat0.err = "OK" /\ DestStat0.err \in {"OK", "ENOENT"}
    /\ \E P \in Ancestors(resolve(dest0)) :
          /\ stat(fs0, Abs(P)).err = "OK"
          /\ SameInode(SrcStat0.st, stat(fs0, Abs(P)).st)

\* An illegal pair is refused with a pre-flight error, and no call has
\* changed the filesystem
Refused ==
    /\ fs = fs0 /\ log = << >>
    /\ Returned => outcome \in PreflightErrors

\* C21: an illegal top-level pair (same inode, directory onto non-directory,
\* non-directory onto directory, dest under src by path prefix, or an
\* ancestor of dest identical to src) is refused with a pre-flight error
\* and the filesystem after the call is the filesystem before it.
C21_IllegalPairNoMutation ==
    (IllegalByStats \/ IllegalByAncestor) => Refused

\* The second of two calls in succession has ended
SecondDone == pc = "done" /\ results[dialect] # NoResult

\* C22: when copy(src, dest) with force true has succeeded and is run again
\* from the same source tree, the filesystem after the second run has the
\* entries, kinds, link targets, file contents and modes that the first run
\* left.
C22_Idempotent ==
    (SecondDone /\ opts.force /\ ~faulted) => View(fs) = results[dialect].fs

\* C22 witness: the second run with force has ended with success in the
\* async dialect, after it unlinked and wrote again a file of the first run
C22_Witness ==
    /\ SecondDone /\ opts.force /\ ~faulted /\ dialect = "async"
    /\ outcome = "OK"
    /\ \E i \in Made("copyFile") : \E j \in Made("unlink") :
          j < i /\ log[j].path = log[i].path
    /\ results[dialect].log # << >>

\* The filter rejects the top-level pair
TopRejected ==
    opts.filter # "none" /\ ~Filter(opts.filter, fs0, src0, dest0)

\* Where the parent of dest is prepared: by checkParentDir only, which runs
\* on the top-level pair alone, as the first call that changes anything,
\* after the pre-flight checks and the filter have passed; a rejected
\* top-level pair changes nothing; every other call is made at or below
\* dest; and the dispatcher of the top-level pair finds the parent in place
C23_State ==
    /\ (pc \in {"checkPaths", "checkParentPaths", "handleFilter",
                 "checkParentDir"} /\ arg.top) => log = << >>
    /\ (pc = "checkParentDir") =>
          /\ arg.top /\ stack = NoStack
          /\ arg.src = src0 /\ arg.dest = dest0
          /\ ~TopRejected
    /\ TopRejected => (log = << >> /\ fs = fs0)
    /\ \A i \in 2..Len(log) :
          IsPrefix(resolve(dest0), resolve(log[i].path))
    /\ (pc = "getStatsForCopy" /\ arg.top) =>
          /\ stat(fs, dirname(dest0)).err = "OK"
          /\ isDirectory(stat(fs, dirname(dest0)).st)

\* The step of checkParentDir on a parent that does not exist: the
\* recursive mkdir of the parent is the call made, and on its success the
\* dispatcher is next; no other step makes a call on a path outside dest
C23_Step ==
    /\ (pc = "checkParentDir" /\ stat(fs, dirname(dest0)).err = "ENOENT") =>
          /\ Issues("mkdir", dirname(dest0))
          /\ \/ /\ LastCall(log').err = "OK" /\ pc' = "getStatsForCopy"
                /\ isDirectory(stat(fs', dirname(dest0)).st)
             \/ LastCall(log').err # "OK" /\ pc' = "done"
    /\ (pc # "checkParentDir" /\ Len(log') = Len(log) + 1) =>
          IsPrefix(resolve(dest0), resolve(LastCall(log').path))

\* C23: a parent of dest that does not exist is created recursively for the
\* top-level pair only, after the pre-flight checks and the filter have
\* passed and before the dispatcher runs; a top-level pair that the filter
\* rejects creates nothing, and no child pair makes a parent mkdir.
C23_ParentPrepared == [][C23_Step /\ C23_State']_vars

\* C23 witness: a file has been copied with success to a path whose parent
\* directory did not exist
C23_Witness ==
    /\ pc = "done" /\ outcome = "OK"
    /\ stat(fs0, dirname(dest0)).err = "ENOENT"
    /\ isFile(lstat(fs0, src0).st)
    /\ log # << >> /\ log[1].op = "mkdir" /\ log[1].path = dirname(dest0)
    /\ isFile(lstat(fs, dest0).st)

\* The directory loop that is running, and the names it has left, in the
\* order in which readdir returned them
Frame == stack[Len(stack)]

\* C24: in every dialect the children of a directory are processed in the
\* order in which readdir returned them: the child that the loop takes next
\* is the first of the names it has left.
C24_ReaddirOrder ==
    [][(pc = "copyDirItems" /\ Frame.items # << >>) =>
          /\ pc' = "checkPaths"
          /\ arg'.src = join(Frame.src, Head(Frame.items))
          /\ arg'.dest = join(Frame.dest, Head(Frame.items))
          /\ stack'[Len(stack')].items = Tail(Frame.items)]_vars

\* The calls logged on paths strictly below a path, and at or below it
Below(path) ==
    {j \in 1..Len(log) :
        /\ IsPrefix(resolve(path), resolve(log[j].path))
        /\ resolve(log[j].path) # resolve(path)}

Within(path) ==
    {j \in 1..Len(log) : IsPrefix(resolve(path), resolve(log[j].path))}

\* The chmod calls logged on the path of call i
Chmods(i) ==
    {c \in 1..Len(log) : log[c].op = "chmod" /\ log[c].path = log[i].path}

\* C25: for every dest directory A that the copy created, the mkdir of A
\* comes before every call on an entry below A, and the chmod of A comes
\* after every call on an entry below A and is the last call within A; a
\* copy that succeeded has made that chmod, which gave A the mode of its
\* source directory.
C25_MkdirFirstChmodLast ==
    \A i \in Made("mkdir") :
        /\ \A j \in Below(log[i].path) : i < j
        /\ \A c \in Chmods(i) :
              /\ i < c
              /\ \A j \in Within(log[i].path) : j <= c
        /\ (pc = "done" /\ outcome = "OK") =>
              /\ Chmods(i) # {}
              /\ stat(fs, log[i].path).st.mode = SrcMode(log[i].path)

\* C25 witness: a copy has ended with success that created a directory
\* inside a directory it created, with files copied into both
C25_Witness ==
    /\ pc = "done" /\ outcome = "OK" /\ dialect = "async"
    /\ \E i \in Made("mkdir") : \E k \in Made("mkdir") :
          /\ k \in Below(log[i].path)
          /\ \E j \in Made("copyFile") : j \in Below(log[k].path)
          /\ \E c \in Chmods(k) : \E e \in Chmods(i) : k < c /\ c < e

\* C26: in the callback and the async dialect at most one mutating call is
\* in flight at any time: every mutation that is carried out is the only
\* call in flight, and none is in flight when it has completed.
C26_Step ==
    (Len(log') > Len(log)) =>
        /\ inflight = {LastCall(log').op}
        /\ inflight' = {}

C26_State == Cardinality(inflight) <= 1

C27_Step ==
    (pc = "checkPaths" /\ ~arg.top /\ pc' # "done") =>
        pc' = "checkParentPaths"

C27_ChildPreflight == [][C27_Step]_vars

\* C28: in every dialect no descriptor that the copy opened for the
\* timestamp update is open once the copy has returned or failed, whichever
\* call of the update failed.
C28_DescriptorsClosed == (pc = "done") => fds = 0

\* C29: a file byte-copied with preserveTimestamps is mutated in the order
\* copyFile, chmod to (srcMode | 0o200) only if the source lacks the
\* owner-write bit, futimes, chmod to srcMode; dest has the owner-write bit
\* when it is opened for the timestamp update, the chmod to srcMode is the
\* last mutation of dest, and the final mode of dest is the source mode.
C29_SrcMode == stat(fs, arg.src).st.mode

C29_CopyStep ==
    (pc = "_copyFile" /\ opts.preserveTimestamps) =>
        /\ Issues("copyFile", arg.dest)
        /\ pc' \in {"handleTimestampsAndMode", "done"}

C29_WritableStep ==
    (pc = "handleTimestampsAndMode") =>
        /\ LastCall(log).op = "copyFile" /\ LastCall(log).path = arg.dest
        /\ IF fileIsNotWritable(C29_SrcMode)
           THEN Issues("chmod", arg.dest) ELSE log' = log
        /\ pc' \in {"setDestTimestamps", "done"}

C29_TimesStep ==
    (pc = "setDestTimestamps") =>
        /\ stat(fs, arg.dest).st.mode = WithOwnerWrite(C29_SrcMode)
        /\ ~fileIsNotWritable(stat(fs, arg.dest).st.mode)
        /\ Issues("futimes", arg.dest)
        /\ pc' = IF LastCall(log').err = "OK" THEN "setDestMode" ELSE "done"

C29_ModeStep ==
    (/\ pc = "setDestMode"
     /\ LastCall(log).op = "futimes"
     /\ LastCall(log).path = arg.dest) =>
        /\ Issues("chmod", arg.dest)
        /\ (LastCall(log').err = "OK") =>
               stat(fs', arg.dest).st.mode = C29_SrcMode

\* After the futimes of a path come its chmod and no other call on it
C29_Last ==
    \A i \in 1..Len(log) :
        (log[i].op = "futimes" /\ log[i].err = "OK") =>
            /\ (i < Len(log)) =>
                   log[i + 1].op = "chmod" /\ log[i + 1].path = log[i].path
            /\ \A j \in (i + 2)..Len(log) : log[j].path # log[i].path

C29_FileMutationOrder ==
    [][/\ C29_CopyStep /\ C29_WritableStep /\ C29_TimesStep /\ C29_ModeStep
       /\ C29_Last']_vars

C29_Witness ==
    /\ pc = "done"
    /\ outcome = "OK"
    /\ opts.preserveTimestamps
    /\ Len(log) >= 4
    /\ \E i \in 1..(Len(log) - 3) :
          /\ log[i].op = "copyFile"
          /\ log[i + 1].op = "chmod"
          /\ log[i + 2].op = "futimes"
          /\ log[i + 3].op = "chmod"
          /\ \A j \in i..(i + 3) : log[j].path = log[i].path /\ log[j].err = "OK"
          /\ SrcMode(log[i].path) = 292
          /\ stat(fs, log[i].path).st.mode = 292

\* C30: when several pre-flight conditions hold for a pair, checkPaths
\* raises the first of them in the order same inode, directory onto
\* non-directory, non-directory onto directory, src a path prefix of dest;
\* when none holds it raises nothing.
C30_Codes ==
    <<"ERR_FS_COPY_TO_SUBDIRECTORY", "ERR_FS_COPY_DIR_TO_NON_DIR",
      "ERR_FS_COPY_NON_DIR_TO_DIR", "ERR_FS_COPY_TO_SUBDIRECTORY">>

C30_Holds ==
    LET s == statFunc(fs, arg.src).st
        t == statFunc(fs, arg.dest)
        there == t.err = "OK"
    IN <<there /\ s.ino = t.st.ino /\ s.dev = t.st.dev,
         there /\ s.kind = "dir" /\ t.st.kind # "dir",
         there /\ s.kind # "dir" /\ t.st.kind = "dir",
         s.kind = "dir" /\ SubdirOf(dialect, arg.src, arg.dest)>>

C30_Pre ==
    /\ pc = "checkPaths"
    /\ statFunc(fs, arg.src).err = "OK"
    /\ statFunc(fs, arg.dest).err \in {"OK", "ENOENT"}

C30_Step ==
    C30_Pre =>
        LET hold == {i \in 1..4 : C30_Holds[i]}
        IN IF hold = {}
           THEN pc' # "done" /\ outcome' = outcome
           ELSE LET first == CHOOSE i \in hold : \A j \in hold : i <= j
                IN pc' = "done" /\ outcome' = C30_Codes[first]

C30_FirstCondition == [][C30_Step]_vars

C30_Witness ==
    /\ pc = "done"
    /\ outcome = "ERR_FS_COPY_DIR_TO_NON_DIR"
    /\ arg.top
    /\ log = << >>
    /\ statFunc(fs, arg.src).st.kind = "dir"
    /\ statFunc(fs, arg.dest).st.kind = "file"
    /\ SubdirOf(dialect, arg.src, arg.dest)

\* C31: the stat resolver stats src and dest with stat when dereference is
\* set and with lstat otherwise; ENOENT on dest gives a null destStat and is
\* no error; every other failure of the stat of dest and every failure of
\* the stat of src is the failure of the copy, and the step mutates nothing.
C31_Src == IF opts.dereference THEN stat(fs, arg.src) ELSE lstat(fs, arg.src)

C31_Dest == IF opts.dereference THEN stat(fs, arg.dest) ELSE lstat(fs, arg.dest)

C31_DestFails == C31_Dest.err \notin {"OK", "ENOENT"}

C31_Step ==
    (pc = "checkPaths") =>
        /\ fs' = fs /\ log' = log
        /\ arg.top => log = << >>
        /\ IF C31_Src.err # "OK" \/ C31_DestFails
           THEN /\ pc' = "done"
                /\ outcome' \in ({C31_Src.err} \cup
                                 (IF C31_DestFails THEN {C31_Dest.err} ELSE {}))
                                \ {"OK"}
           ELSE (pc' # "done") =>
                    /\ arg'.srcStat = C31_Src.st
                    /\ arg'.destStat =
                         IF C31_Dest.err = "ENOENT" THEN NoNode ELSE C31_Dest.st

C31_StatResolver == [][C31_Step]_vars

C31_Witness ==
    /\ pc = "done"
    /\ C31_Src.err = "OK"
    /\ C31_DestFails
    /\ outcome = C31_Dest.err

C31_WitnessSrc ==
    /\ pc = "done"
    /\ log = << >>
    /\ arg.top
    /\ C31_Src.err = "ENOENT"
    /\ outcome = "ENOENT"

C31_WitnessNull ==
    /\ pc = "checkParentPaths"
    /\ C31_Dest.err = "ENOENT"
    /\ arg.destStat = NoNode

\* C32: the ancestor walk terminates.  Each step either ends the walk or
\* replaces the path walked by its parent, which is shorter.  The walk ends
\* without error at the parent of src, at the root, and at an ancestor that
\* does not exist; with ERR_FS_COPY_TO_SUBDIRECTORY at the first ancestor
\* identical to src; with the error of the stat otherwise.
C32_Ancestor == resolve(dirname(arg.walk))

C32_Step ==
    (pc = "checkParentPaths") =>
        LET st == stat(fs, Abs(C32_Ancestor))
        IN /\ fs' = fs /\ log' = log
           /\ IF \/ C32_Ancestor = resolve(dirname(arg.src))
                 \/ C32_Ancestor = RootOf(C32_Ancestor)
                 \/ st.err = "ENOENT"
              THEN pc' = "handleFilter" /\ outcome' = outcome
              ELSE IF st.err # "OK"
              THEN pc' = "done" /\ outcome' = st.err
              ELSE IF /\ st.st.ino = arg.srcStat.ino
                      /\ st.st.dev = arg.srcStat.dev
              THEN pc' = "done" /\ outcome' = "ERR_FS_COPY_TO_SUBDIRECTORY"
              ELSE /\ pc' = "checkParentPaths"
                   /\ arg'.walk = Abs(C32_Ancestor)
                   /\ Len(resolve(arg'.walk)) < Len(resolve(arg.walk))

C32_WalkTerminates == [][C32_Step]_vars

C32_Witness ==
    /\ pc = "handleFilter"
    /\ Len(resolve(arg.walk)) < Len(resolve(arg.dest))

\* C33: a copy never copies an entry that the same copy created: the source
\* of every child pair it visits is an entry of the initial filesystem.
C33_NoSelfCopy ==
    (pc = "checkPaths" /\ ~arg.top /\ ~faulted) =>
        LET r == Physical(fs, arg.src, FALSE)
        IN (r.err = "OK") => (r.path \in DOMAIN fs0)

\* C34: when a source link is copied with dereference false to a dest that
\* does not exist, the target handed to symlink is the string readlink(src)
\* returned, unchanged, in every dialect.
C34_TargetUnchanged ==
    (pc = "symlink" /\ ~opts.dereference /\ ~Exists(arg.destStat)) =>
        arg.target = readlink(fs, arg.src).target

\* C35: isSrcSubdir(src, dest) is true exactly when the non-empty
\* components of the resolved src are a prefix of those of the resolved
\* dest: true for equal paths, true for every dest when src is the root,
\* false when src has more components than dest; the reduce-based and the
\* every-based version return the same.
C35_SrcArr == resolve(PathOf(arg.src))

C35_DestArr == resolve(PathOf(arg.dest))

C35_IsPrefix ==
    /\ Len(C35_SrcArr) <= Len(C35_DestArr)
    /\ SubSeq(C35_DestArr, 1, Len(C35_SrcArr)) = C35_SrcArr

C35_Returned == pc = "returned" /\ results.fn = "isSrcSubdir"

C35_PrefixOnly ==
    C35_Returned =>
        /\ results.every = C35_IsPrefix
        /\ results.reduce = results.every
        /\ (C35_SrcArr = C35_DestArr) => results.every
        /\ (C35_SrcArr = << >>) => results.every
        /\ (Len(C35_SrcArr) > Len(C35_DestArr)) => ~results.every

C35_Witness ==
    /\ C35_Returned
    /\ results.every /\ results.reduce
    /\ C35_SrcArr = <<"a">>
    /\ C35_DestArr = <<"a", "b">>

C35_WitnessNot ==
    /\ C35_Returned
    /\ ~results.every /\ ~results.reduce
    /\ C35_SrcArr = <<"a">>
    /\ C35_DestArr = <<"ab">>

\* C36: areIdentical(a, b) holds exactly when a and b have the same device
\* and the same inode and both numbers are nonzero; two records that both
\* report inode 0, or device 0, are not identical.
C36_Returned == pc = "returned" /\ results.fn = "areIdentical"

C36_NonzeroOnly ==
    C36_Returned =>
        /\ results.identical =
              (/\ arg.src.dev = arg.dest.dev
               /\ arg.src.ino = arg.dest.ino
               /\ arg.src.dev # 0
               /\ arg.src.ino # 0)
        /\ (arg.src.ino = 0 /\ arg.dest.ino = 0) => ~results.identical
        /\ (arg.src.dev = 0 /\ arg.dest.dev = 0) => ~results.identical

C36_Witness ==
    /\ C36_Returned
    /\ ~results.identical
    /\ arg.src = arg.dest
    /\ arg.src.ino = 0
    /\ arg.src.dev # 0

C36_WitnessSame ==
    /\ C36_Returned
    /\ results.identical
    /\ arg.src.ino = MaxIno

\* C37: every mutating call of a copy is made on dest, on a path formed by
\* joining child names to dest, or, for the recursive mkdir that comes first,
\* on the parent of dest; none is made on a path formed from src.
C37_ParentMkdir(i) ==
    /\ i = 1
    /\ log[i].op = "mkdir"
    /\ resolve(log[i].path) = resolve(dirname(dest0))

C37_OnlyDest ==
    \A i \in 1..Len(log) :
        \/ C37_ParentMkdir(i)
        \/ /\ IsPrefix(resolve(dest0), resolve(log[i].path))
           /\ ~IsPrefix(resolve(src0), resolve(log[i].path))

C37_Witness ==
    /\ pc = "done"
    /\ outcome = "OK"
    /\ Len(log) >= 3
    /\ C37_ParentMkdir(1)
    /\ \A i \in 2..Len(log) : resolve(log[i].path) = resolve(dest0)

\* C38: a copy into an existing directory merges.  Every entry under dest
\* before the copy whose relative path names nothing in the source tree is
\* there afterwards with its kind, contents and mode, whether the copy
\* succeeds or fails; an entry goes only by an unlink, and every unlink is
\* followed at once by the copyFile or the symlink that makes the same path.
Present(f, q) == q \in DOMAIN f /\ f[q].kind # "none"

\* The entries under dest0 before the copy with no counterpart under src0
DestOnly ==
    {q \in DOMAIN fs0 :
        /\ Present(fs0, q)
        /\ IsPrefix(resolve(dest0), q)
        /\ q # resolve(dest0)
        /\ Physical(fs0, SrcOf(q), FALSE).err # "OK"}

C38_Kept ==
    \A q \in DestOnly :
        /\ Present(fs, q)
        /\ fs[q].kind = fs0[q].kind
        /\ fs[q].data = fs0[q].data
        /\ fs[q].mode = fs0[q].mode

C38_Unlinks ==
    \A i \in 1..Len(log) :
        (log[i].op = "unlink" /\ log[i].err = "OK") =>
            IF i = Len(log)
            THEN pc \in {"_copyFile", "symlink"} /\ arg.dest = log[i].path
            ELSE /\ log[i + 1].op \in {"copyFile", "symlink"}
                 /\ log[i + 1].path = log[i].path

C38_Gone ==
    \A q \in DOMAIN fs0 :
        (Present(fs0, q) /\ ~Present(fs, q)) =>
            \E i \in 1..Len(log) : log[i].op = "unlink" /\ log[i].err = "OK"

C38_Merge == C38_Kept /\ C38_Unlinks /\ C38_Gone

C38_Witness ==
    /\ pc = "done"
    /\ outcome = "OK"
    /\ DestOnly # {}
    /\ \E i \in 1..Len(log) : log[i].op = "unlink" /\ log[i].err = "OK"

====
